---- MODULE Spec2Model ----
(***************************************************************************)
(* Model of the HTML+CSS -> Webflow clipboard converter                    *)
(* (src/src/engine/converter.ts).                                          *)
(*                                                                         *)
(* Text is modelled as a sequence of tokens (strings): a selector, a class *)
(* name, a declaration string and the content of an embed are Seq(STRING). *)
(* Whitespace between tokens is not represented, except inside selectors,  *)
(* where the token " " is the descendant combinator.  A stylesheet is the  *)
(* sequence of its items (rules and @media blocks), one per line, which is *)
(* what the regular expressions of the source see on well-formed text.     *)
(* The markup is modelled by the tree DOMParser hands to the converter:    *)
(* the children of doc.body.  Identifiers (uuidv4) are drawn from a        *)
(* counter; the empty string '' is the identifier 0.                       *)
(***************************************************************************)
EXTENDS Integers, Sequences, FiniteSets, TLC

VARIABLES this, input, result, calls, pc

vars == <<this, input, result, calls, pc>>

\* ------------------------------------------------------------------------
\* Bounds of the model
\* ------------------------------------------------------------------------

\* Largest number of element nodes in a generated markup tree.
MaxNodes == 3

\* Largest number of convert calls on one converter instance (SpecSession).
MaxCalls == 3

\* Largest number of whitespace-separated values of a declaration drawn for
\* the normalizer (SpecNormalize).
MaxValues == 4

\* Largest number of rules of a stylesheet text drawn for the normalizer
\* (SpecSheet).
MaxRules == 2

\* Identifiers handed out by uuidv4 during call number c are taken from
\* the block c*IdBlock+1 .. (c+1)*IdBlock, so no identifier is ever reused.
IdBlock == 40

\* ------------------------------------------------------------------------
\* Generic helpers on token sequences
\* ------------------------------------------------------------------------

NoId == 0

Range(s) == {s[i] : i \in 1..Len(s)}

\* String.prototype.includes on token text: t occurs contiguously in s.
Includes(s, t) ==
    \E i \in 0..(Len(s) - Len(t)) : SubSeq(s, i + 1, i + Len(t)) = t

RECURSIVE Flatten(_)
Flatten(ss) == IF ss = <<>> THEN <<>> ELSE Head(ss) \o Flatten(Tail(ss))

\* The members of s, in order, that keep maps to TRUE.
RECURSIVE SelectSeq2(_, _)
SelectSeq2(s, keep) ==
    IF s = <<>> THEN <<>>
    ELSE (IF keep[Head(s)] THEN <<Head(s)>> ELSE <<>>) \o SelectSeq2(Tail(s), keep)

\* ------------------------------------------------------------------------
\* Tables of the source
\* ------------------------------------------------------------------------

TAG_MAP ==
    [t \in {"div", "section", "header", "footer", "main", "article", "aside",
            "nav", "h1", "h2", "h3", "h4", "h5", "h6", "p", "a", "span",
            "img", "ul", "ol", "li", "strong", "b", "em", "i", "blockquote",
            "figure", "figcaption", "button", "form", "input", "label",
            "textarea", "select"} |->
        CASE t = "section" -> "Section"
          [] t \in {"h1", "h2", "h3", "h4", "h5", "h6"} -> "Heading"
          [] t = "p" -> "Paragraph"
          [] t = "a" -> "Link"
          [] t = "img" -> "Image"
          [] t \in {"ul", "ol"} -> "List"
          [] t = "li" -> "ListItem"
          [] t \in {"strong", "b"} -> "Strong"
          [] t \in {"em", "i"} -> "Emphasized"
          [] t = "blockquote" -> "Blockquote"
          [] t = "figure" -> "Figure"
          [] t = "figcaption" -> "Figcaption"
          [] OTHER -> "Block"]

IGNORED_TAGS ==
    {"html", "head", "body", "meta", "link", "title", "base", "noscript",
     "template", "slot", "doctype", "!doctype", "colgroup", "col", "caption",
     "thead", "tbody", "tfoot", "tr", "th", "td", "br", "hr", "wbr", "area",
     "map", "track", "source", "param", "object", "embed", "portal",
     "picture"}

\* ------------------------------------------------------------------------
\* Stylesheet Normalizer
\* ------------------------------------------------------------------------

\* Value tokens that contain one of the markers var(--, calc(, clamp(,
\* min(, max( (String.prototype.includes decided per token).
MarkerTokens ==
    {"var(--x)", "calc(100%", "clamp(1px,2vw,3px)", "min(1px,2px)", "max(1px,2px)"}

\* Value tokens v with v.startsWith('#') or v.startsWith('rgb').
HashOrRgbTokens == {"#fff", "rgb(0,0,0)"}

\* Value tokens v with /^[a-z]+$/i.test(v).
AlphabeticTokens == {"red", "blue", "none"}

\* wrapCssVariables that knows the marker var(-- alone.
wrapCssVariables_VarOnly(value) ==
    IF \E i \in 1..Len(value) : value[i] = "var(--x)"
    THEN <<"@raw<|">> \o value \o <<"|>">>
    ELSE value

wrapCssVariables(value) ==
    IF \E i \in 1..Len(value) : value[i] \in MarkerTokens
    THEN <<"@raw<|">> \o value \o <<"|>">>
    ELSE value

\* `${prop}-top` and friends, for the two properties that reach them.
Longhand(prop, side) ==
    CASE prop = "margin" /\ side = "top" -> "margin-top"
      [] prop = "margin" /\ side = "right" -> "margin-right"
      [] prop = "margin" /\ side = "bottom" -> "margin-bottom"
      [] prop = "margin" /\ side = "left" -> "margin-left"
      [] prop = "padding" /\ side = "top" -> "padding-top"
      [] prop = "padding" /\ side = "right" -> "padding-right"
      [] prop = "padding" /\ side = "bottom" -> "padding-bottom"
      [] prop = "padding" /\ side = "left" -> "padding-left"

Decl(prop, val) == <<prop, ":", val, ";">>

\* Box that writes the left longhand before the right one.
Box_LeftBeforeRight(prop, t, r, b, l) ==
    Decl(Longhand(prop, "top"), t) \o Decl(Longhand(prop, "left"), l)
        \o Decl(Longhand(prop, "bottom"), b) \o Decl(Longhand(prop, "right"), r)

Box(prop, t, r, b, l) ==
    Decl(Longhand(prop, "top"), t) \o Decl(Longhand(prop, "right"), r)
        \o Decl(Longhand(prop, "bottom"), b) \o Decl(Longhand(prop, "left"), l)

\* expandShorthand whose two-value border-radius pairs the corners by
\* side (top-left with top-right) instead of diagonally.
expandShorthand_RadiusBySide(prop, values) ==
    CASE prop \in {"margin", "padding"} ->
            (CASE Len(values) = 1 -> Box(prop, values[1], values[1], values[1], values[1])
               [] Len(values) = 2 -> Box(prop, values[1], values[2], values[1], values[2])
               [] Len(values) = 3 -> Box(prop, values[1], values[2], values[3], values[2])
               [] Len(values) = 4 -> Box(prop, values[1], values[2], values[3], values[4])
               [] OTHER -> <<>>)
      [] prop = "border-radius" ->
            (CASE Len(values) = 1 ->
                    Decl("border-top-left-radius", values[1])
                        \o Decl("border-top-right-radius", values[1])
                        \o Decl("border-bottom-left-radius", values[1])
                        \o Decl("border-bottom-right-radius", values[1])
               [] Len(values) = 2 ->
                    Decl("border-top-left-radius", values[1])
                        \o Decl("border-top-right-radius", values[1])
                        \o Decl("border-bottom-right-radius", values[2])
                        \o Decl("border-bottom-left-radius", values[2])
               [] Len(values) = 4 ->
                    Decl("border-top-left-radius", values[1])
                        \o Decl("border-top-right-radius", values[2])
                        \o Decl("border-bottom-right-radius", values[3])
                        \o Decl("border-bottom-left-radius", values[4])
               [] OTHER -> <<>>)
      [] prop = "gap" ->
            Decl("grid-column-gap", values[1])
                \o Decl("grid-row-gap", IF Len(values) >= 2 THEN values[2] ELSE values[1])
      [] prop = "background" ->
            IF values[1] \in HashOrRgbTokens \/ (Len(values) = 1 /\ values[1] \in AlphabeticTokens)
            THEN <<"background-color", ":">> \o values \o <<";">>
            ELSE <<prop, ":">> \o values \o <<";">>
      [] OTHER -> <<prop, ":">> \o values \o <<";">>

expandShorthand(prop, values) ==
    CASE prop \in {"margin", "padding"} ->
            (CASE Len(values) = 1 -> Box(prop, values[1], values[1], values[1], values[1])
               [] Len(values) = 2 -> Box(prop, values[1], values[2], values[1], values[2])
               [] Len(values) = 3 -> Box(prop, values[1], values[2], values[3], values[2])
               [] Len(values) = 4 -> Box(prop, values[1], values[2], values[3], values[4])
               [] OTHER -> <<>>)
      [] prop = "border-radius" ->
            (CASE Len(values) = 1 ->
                    Decl("border-top-left-radius", values[1])
                        \o Decl("border-top-right-radius", values[1])
                        \o Decl("border-bottom-left-radius", values[1])
                        \o Decl("border-bottom-right-radius", values[1])
               [] Len(values) = 2 ->
                    Decl("border-top-left-radius", values[1])
                        \o Decl("border-top-right-radius", values[2])
                        \o Decl("border-bottom-right-radius", values[1])
                        \o Decl("border-bottom-left-radius", values[2])
               [] Len(values) = 4 ->
                    Decl("border-top-left-radius", values[1])
                        \o Decl("border-top-right-radius", values[2])
                        \o Decl("border-bottom-right-radius", values[3])
                        \o Decl("border-bottom-left-radius", values[4])
               [] OTHER -> <<>>)
      [] prop = "gap" ->
            Decl("grid-column-gap", values[1])
                \o Decl("grid-row-gap", IF Len(values) >= 2 THEN values[2] ELSE values[1])
      [] prop = "background" ->
            IF values[1] \in HashOrRgbTokens \/ (Len(values) = 1 /\ values[1] \in AlphabeticTokens)
            THEN <<"background-color", ":">> \o values \o <<";">>
            ELSE <<prop, ":">> \o values \o <<";">>
      [] OTHER -> <<prop, ":">> \o values \o <<";">>

\* One `property: value` pair of a rule (the forEach body of lines 186-206).
NormalizeDecl(d) ==
    LET propValue == wrapCssVariables(d.vals)
    IN  IF propValue # <<>> /\ propValue[1] = "@raw<|"
        THEN <<d.prop, ":">> \o propValue \o <<";">>
        ELSE expandShorthand(d.prop, propValue)

RECURSIVE NormalizeDecls(_)
NormalizeDecls(decls) ==
    IF decls = <<>> THEN <<>>
    ELSE NormalizeDecl(Head(decls)) \o NormalizeDecls(Tail(decls))

\* The text of a rule's declarations as written in the stylesheet.
RECURSIVE RawDecls(_)
RawDecls(decls) ==
    IF decls = <<>> THEN <<>>
    ELSE (<<Head(decls).prop, ":">> \o Head(decls).vals \o <<";">>) \o RawDecls(Tail(decls))

\* Ordered Map<string, string>: a sequence of [key, val] with distinct keys.
MapHas(m, k) == \E i \in 1..Len(m) : m[i].key = k

MapGet(m, k) == m[CHOOSE i \in 1..Len(m) : m[i].key = k].val

\* Map.prototype.set: a present key keeps its position and takes the value.
MapSet(m, k, v) ==
    IF MapHas(m, k)
    THEN [i \in 1..Len(m) |-> IF m[i].key = k THEN [key |-> k, val |-> v] ELSE m[i]]
    ELSE Append(m, [key |-> k, val |-> v])

\* selector.startsWith('@')
StartsWithAt(sel) == sel # <<>> /\ sel[1] \in {"@", "@media", "@keyframes", "@font-face", "@import"}

\* parseCssToStyleLess: @media blocks are removed, every remaining rule
\* sets its selector's entry to its normalised declarations.
RECURSIVE parseCssToStyleLess(_)
parseCssToStyleLess(css) ==
    IF css = <<>> THEN <<>>
    ELSE LET item == css[Len(css)]
             styleMap == parseCssToStyleLess(SubSeq(css, 1, Len(css) - 1))
             styleLess == NormalizeDecls(item.decls)
         IN  IF item.kind = "media" \/ StartsWithAt(item.sel) \/ styleLess = <<>>
             THEN styleMap
             ELSE MapSet(styleMap, item.sel, styleLess)

\* ------------------------------------------------------------------------
\* Variable & Advanced-CSS Extractor
\* ------------------------------------------------------------------------

\* The text of a rule and of an @media block, as written.
RuleText(r) == r.sel \o <<"{">> \o RawDecls(r.decls) \o <<"}">>

RECURSIVE RuleTexts(_)
RuleTexts(rs) == IF rs = <<>> THEN <<>> ELSE RuleText(Head(rs)) \o RuleTexts(Tail(rs))

MediaText(m) == m.sel \o <<"{">> \o RuleTexts(m.inner) \o <<"}">>

\* Every rule of the text, those inside @media blocks included, in order.
RECURSIVE AllRules(_)
AllRules(css) ==
    IF css = <<>> THEN <<>>
    ELSE (IF Head(css).kind = "media" THEN Head(css).inner ELSE <<Head(css)>>)
            \o AllRules(Tail(css))

\* The text with its @media blocks removed (cssWithoutMedia).
RECURSIVE WithoutMedia(_)
WithoutMedia(css) ==
    IF css = <<>> THEN <<>>
    ELSE (IF Head(css).kind = "media" THEN <<>> ELSE <<Head(css)>>)
            \o WithoutMedia(Tail(css))

\* The selector ends in `:root` (what /:root\s*\{[^}]+\}/ finds).
EndsInRoot(sel) ==
    Len(sel) >= 2 /\ sel[Len(sel) - 1] = ":" /\ sel[Len(sel)] = "root"

HasAttr(sel) == \E i \in 1..Len(sel) : sel[i] = "["

HasComplexPseudo(sel) ==
    \E i \in 1..(Len(sel) - 2) :
        sel[i] = ":" /\ sel[i + 1] \in {"is", "where", "has", "not"} /\ sel[i + 2] = "("

IsElementSelector(sel) ==
    sel # <<>> /\ (sel[1] \in {"html", "body", "*"} \/ (Len(sel) >= 2 /\ sel[1] = ":" /\ sel[2] = "root"))

\* 1. :root blocks, wherever they stand.
RECURSIVE RootBlocks(_)
RootBlocks(rules) ==
    IF rules = <<>> THEN <<>>
    ELSE (IF EndsInRoot(Head(rules).sel) /\ Head(rules).decls # <<>>
          THEN << <<":", "root", "{">> \o RawDecls(Head(rules).decls) \o <<"}">> >>
          ELSE <<>>) \o RootBlocks(Tail(rules))

\* 2. @media blocks, as written.
RECURSIVE MediaBlocks(_)
MediaBlocks(css) ==
    IF css = <<>> THEN <<>>
    ELSE (IF Head(css).kind = "media" THEN <<MediaText(Head(css))>> ELSE <<>>)
            \o MediaBlocks(Tail(css))

\* 3. rules with an attribute selector, outside @media.
RECURSIVE AttrRules(_)
AttrRules(rules) ==
    IF rules = <<>> THEN <<>>
    ELSE (IF HasAttr(Head(rules).sel) /\ Head(rules).decls # <<>>
          THEN <<RuleText(Head(rules))>> ELSE <<>>) \o AttrRules(Tail(rules))

\* 4. :is(), :where(), :has(), :not() rules, outside @media.
RECURSIVE ComplexPseudoRules(_, _)
ComplexPseudoRules(rules, advancedRules) ==
    IF rules = <<>> THEN advancedRules
    ELSE LET r == Head(rules)
             rule == RuleText(r)
         IN  ComplexPseudoRules(Tail(rules),
                IF HasComplexPseudo(r.sel) /\ r.decls # <<>>
                   /\ rule \notin Range(advancedRules) /\ ~HasAttr(r.sel)
                THEN Append(advancedRules, rule) ELSE advancedRules)

\* 5. element and global selectors, outside @media.
RECURSIVE ElementRules(_, _)
ElementRules(rules, advancedRules) ==
    IF rules = <<>> THEN advancedRules
    ELSE LET r == Head(rules)
         IN  ElementRules(Tail(rules),
                IF IsElementSelector(r.sel) /\ r.decls # <<>>
                   /\ ~\E i \in 1..Len(advancedRules) : Includes(advancedRules[i], r.sel)
                THEN Append(advancedRules, RuleText(r)) ELSE advancedRules)

\* The list advancedRules of extractAdvancedCss; the function returns its
\* members joined, which is the empty string exactly when the list is empty.
advancedRulesOf(css) ==
    LET s12 == RootBlocks(AllRules(css)) \o MediaBlocks(css)
        s3 == s12 \o AttrRules(WithoutMedia(css))
        s4 == ComplexPseudoRules(WithoutMedia(css), s3)
    IN  ElementRules(WithoutMedia(css), s4)

extractAdvancedCss(css) == Flatten(advancedRulesOf(css))

\* parseCssVariables: the custom properties of the :root blocks.
IsVarProp(prop) == prop \in {"--x", "--y"}

RECURSIVE VarsOfDecls(_, _)
VarsOfDecls(decls, variables) ==
    IF decls = <<>> THEN variables
    ELSE VarsOfDecls(Tail(decls),
            IF IsVarProp(Head(decls).prop)
            THEN MapSet(variables, Head(decls).prop, Head(decls).vals)
            ELSE variables)

RECURSIVE VarsOfRules(_, _)
VarsOfRules(rules, variables) ==
    IF rules = <<>> THEN variables
    ELSE VarsOfRules(Tail(rules),
            IF EndsInRoot(Head(rules).sel)
            THEN VarsOfDecls(Head(rules).decls, variables)
            ELSE variables)

parseCssVariables(css) == VarsOfRules(AllRules(css), <<>>)

\* ------------------------------------------------------------------------
\* Synthetic class names
\* ------------------------------------------------------------------------

\* Tokens that /[^\w\s-]/ removes.
SpecialTokens == {".", ">", ":", "[", "]", "(", ")", "*", ",", "#", "+", "~", "=", "@"}

IsSpace(t) == t = " "

RECURSIVE TrimLeft(_)
TrimLeft(s) == IF s # <<>> /\ IsSpace(Head(s)) THEN TrimLeft(Tail(s)) ELSE s

RECURSIVE TrimRight(_)
TrimRight(s) ==
    IF s # <<>> /\ IsSpace(s[Len(s)]) THEN TrimRight(SubSeq(s, 1, Len(s) - 1)) ELSE s

Trim(s) == TrimRight(TrimLeft(s))

RECURSIVE RemoveSpecial(_)
RemoveSpecial(s) ==
    IF s = <<>> THEN <<>>
    ELSE (IF Head(s) \in SpecialTokens THEN <<>> ELSE <<Head(s)>>) \o RemoveSpecial(Tail(s))

\* Every run of the token `from` becomes one token `to`.
RECURSIVE CollapseRuns(_, _, _)
CollapseRuns(s, from, to) ==
    IF s = <<>> THEN <<>>
    ELSE IF Head(s) \in from
         THEN IF Len(s) >= 2 /\ s[2] \in from
              THEN CollapseRuns(Tail(s), from, to)
              ELSE <<to>> \o CollapseRuns(Tail(s), from, to)
         ELSE <<Head(s)>> \o CollapseRuns(Tail(s), from, to)

\* Selectors the first regular expression of the function accepts: a single
\* character h, 1..6, or one of the listed tag names.
CommonTagSelectors ==
    {"h", "1", "2", "3", "4", "5", "6", "p", "div", "span", "a", "button",
     "input", "section", "header", "footer", "main", "aside", "nav"}

generateClassNameFromSelector(selector) ==
    IF Len(selector) = 1 /\ selector[1] \in CommonTagSelectors
    THEN <<"custom-styled-">> \o selector
    ELSE <<"scoped-style-">>
            \o CollapseRuns(CollapseRuns(Trim(RemoveSpecial(selector)), {" "}, "-"), {"-"}, "-")

isSimpleClass(selector) ==
    /\ selector # <<>> /\ selector[1] = "."
    /\ \A i \in 1..Len(selector) : selector[i] \notin {" ", ">", ":", "["}

\* selector.substring(1) of a selector that starts with '.'
ClassNameOf(selector) == Tail(selector)

\* ------------------------------------------------------------------------
\* Element.matches for the selectors of the model: compounds of a tag, *,
\* .class and :pseudo-class, joined by the descendant and child combinators.
\* chain is the element followed by its ancestors up to html.
\* ------------------------------------------------------------------------

\* Pseudo-classes the matcher knows; none holds of an element of a parsed,
\* never rendered document, except :root, which holds of html alone.
KnownPseudoClasses == {"hover", "focus", "active", "visited", "root"}

\* The selector makes Element.matches throw a SyntaxError.
SelectorThrows(sel) ==
    \/ sel = <<>>
    \/ \E i \in 1..Len(sel) : sel[i] = ":" /\ (i = Len(sel) \/ sel[i + 1] \notin KnownPseudoClasses)

IsCombinator(t) == t \in {" ", ">"}

\* Index of the last combinator token of toks, 0 when there is none.
LastCombinator(toks) ==
    IF \E i \in 1..Len(toks) : IsCombinator(toks[i])
    THEN CHOOSE i \in 1..Len(toks) :
            IsCombinator(toks[i]) /\ \A j \in (i + 1)..Len(toks) : ~IsCombinator(toks[j])
    ELSE 0

\* Index of the first token of the combinator run that ends at index k.
RECURSIVE RunStart(_, _)
RunStart(toks, k) ==
    IF k > 1 /\ IsCombinator(toks[k - 1]) THEN RunStart(toks, k - 1) ELSE k

RECURSIVE MatchCompound(_, _, _)
MatchCompound(toks, el, isRootEl) ==
    IF toks = <<>> THEN TRUE
    ELSE CASE Head(toks) = "." ->
                /\ Len(toks) >= 2
                /\ <<toks[2]>> \in Range(el.classes)
                /\ MatchCompound(SubSeq(toks, 3, Len(toks)), el, isRootEl)
           [] Head(toks) = ":" ->
                /\ Len(toks) >= 2
                /\ toks[2] = "root" /\ isRootEl
                /\ MatchCompound(SubSeq(toks, 3, Len(toks)), el, isRootEl)
           [] Head(toks) = "*" -> MatchCompound(Tail(toks), el, isRootEl)
           [] OTHER -> el.tag = Head(toks) /\ MatchCompound(Tail(toks), el, isRootEl)

RECURSIVE MatchChain(_, _)
MatchChain(toks, chain) ==
    IF chain = <<>> THEN FALSE
    ELSE LET k == LastCombinator(toks)
         IN  IF k = 0 THEN MatchCompound(toks, chain[1], Len(chain) = 1)
             ELSE LET s == RunStart(toks, k)
                      left == SubSeq(toks, 1, s - 1)
                      right == SubSeq(toks, k + 1, Len(toks))
                      child == \E i \in s..k : toks[i] = ">"
                  IN  /\ right # <<>> /\ left # <<>>
                      /\ MatchCompound(right, chain[1], Len(chain) = 1)
                      /\ IF child THEN MatchChain(left, Tail(chain))
                         ELSE \E n \in 1..(Len(chain) - 1) :
                                MatchChain(left, SubSeq(chain, n + 1, Len(chain)))

\* "match", "nomatch" or "error" (el.matches threw).
matches(chain, selector) ==
    IF SelectorThrows(selector) THEN "error"
    ELSE IF MatchChain(selector, chain) THEN "match" ELSE "nomatch"

\* ------------------------------------------------------------------------
\* The markup tree.  A node of the tree is a record
\*   [tag, classes, kids, text, css]
\* tag "#text" is a text node (text holds its content), tag "style" an
\* inline style block (css holds the items of its textContent).
\* ------------------------------------------------------------------------

IsElement(n) == n.tag # "#text"

ElementChildren(el) == SelectSeq(el.kids, IsElement)

Info(el) == [tag |-> el.tag, classes |-> el.classes]

\* The ancestors of the children of doc.body.
BodyChain == << [tag |-> "body", classes |-> <<>>], [tag |-> "html", classes |-> <<>>] >>

\* doc.querySelectorAll('style'): the style elements in document order.
RECURSIVE StyleTags(_)
StyleTags(nodes) ==
    IF nodes = <<>> THEN <<>>
    ELSE (IF Head(nodes).tag = "style" THEN <<Head(nodes)>> ELSE <<>>)
            \o StyleTags(Head(nodes).kids) \o StyleTags(Tail(nodes))

\* The tree after styleTag.remove() was called on every style element.
RECURSIVE RemoveStyleTags(_)
RemoveStyleTags(nodes) ==
    IF nodes = <<>> THEN <<>>
    ELSE (IF Head(nodes).tag = "style" THEN <<>>
          ELSE << [Head(nodes) EXCEPT !.kids = RemoveStyleTags(Head(nodes).kids)] >>)
            \o RemoveStyleTags(Tail(nodes))

\* el.outerHTML
RECURSIVE OuterHTML(_)
OuterHTML(el) ==
    IF el.tag = "#text" THEN el.text
    ELSE <<"<", el.tag>> \o Flatten(el.classes) \o <<">">>
            \o Flatten([i \in 1..Len(el.kids) |-> OuterHTML(el.kids[i])])
            \o <<"</", el.tag, ">">>

\* ------------------------------------------------------------------------
\* Class Usage Filter
\* ------------------------------------------------------------------------

RECURSIVE collectUsedClasses(_)

\* collectUsedClasses that enters script and svg subtrees.
collectUsedClasses_EnterEmbeds(element) ==
    (IF element.tag \notin IGNORED_TAGS THEN Range(element.classes) ELSE {})
        \cup UNION { collectUsedClasses(element.kids[i]) :
                        i \in { j \in 1..Len(element.kids) :
                                    /\ IsElement(element.kids[j])
                                    /\ element.kids[j].tag # "style" } }

\* lines 599-616
collectUsedClasses(element) ==
    (IF element.tag \notin IGNORED_TAGS THEN Range(element.classes) ELSE {})
        \cup UNION { collectUsedClasses(element.kids[i]) :
                        i \in { j \in 1..Len(element.kids) :
                                    /\ IsElement(element.kids[j])
                                    /\ element.kids[j].tag \notin {"script", "svg", "style"} } }

\* ------------------------------------------------------------------------
\* Nodes and styles of the output
\* ------------------------------------------------------------------------

\* A WebflowNode.  script is data.embed.meta.script, dataTag is data.tag;
\* src is the position in the markup tree of the element or text run the
\* node was made for (<<>> for a synthesized node): it is bookkeeping of
\* the model and is read by no operation.
Node(id, type, tag, classes, children, text, v, script, dataTag, src) ==
    [_id |-> id, type |-> type, tag |-> tag, classes |-> classes,
     children |-> children, text |-> text, v |-> v, script |-> script,
     dataTag |-> dataTag, src |-> src]

TextNode(id, v, src) == Node(id, "", "", <<>>, <<>>, TRUE, v, FALSE, "", src)

\* The emptyNode / wrapperNode literals of convert and processElement.
BlockNode(id, children) == Node(id, "Block", "div", <<>>, children, FALSE, <<>>, FALSE, "div", <<>>)

createHtmlEmbed(id, content, isScript, src) ==
    Node(id, "HtmlEmbed", "div", <<>>, <<>>, FALSE, content, isScript, "", src)

\* A WebflowStyle; the fields left out are the same in every style.
Style(id, name, styleLess) == [_id |-> id, name |-> name, styleLess |-> styleLess]

\* this.styleMap.get(id): styleMap holds the very objects of this.styles.
StyleHas(styles, id) == \E i \in 1..Len(styles) : styles[i]._id = id

\* styleObj.styleLess += ` ${styleLess}`
AppendStyleLess(styles, id, styleLess) ==
    [i \in 1..Len(styles) |->
        IF styles[i]._id = id
        THEN [styles[i] EXCEPT !.styleLess = @ \o styleLess]
        ELSE styles[i]]

\* uuidv4()
NextUuid(st) == st.uuid + 1

\* ------------------------------------------------------------------------
\* Tree Walker / Node Builder
\* ------------------------------------------------------------------------

\* lines 746-752: the style ids of the element's class tokens.
RECURSIVE ClassStyleIds(_, _)
ClassStyleIds(classes, styleIdMap) ==
    IF classes = <<>> THEN <<>>
    ELSE (IF MapHas(styleIdMap, Head(classes)) /\ MapGet(styleIdMap, Head(classes)) # NoId
          THEN <<MapGet(styleIdMap, Head(classes))>> ELSE <<>>)
            \o ClassStyleIds(Tail(classes), styleIdMap)

\* ApplyComplexRule without the merge-key guard: the declarations are
\* appended for every matching element.
ApplyComplexRule_NoMergeGuard(rule, chain, acc) ==
    LET st == acc.st
        classIds == acc.classIds
        selector == rule.key
        styleLess == rule.val
    IN  IF matches(chain, selector) # "match" THEN acc
        ELSE IF Len(classIds) > 0
        THEN LET targetStyleId == classIds[1]
                 mergeKey == <<targetStyleId, selector>>
             IN  IF StyleHas(st.styles, targetStyleId)
                 THEN [classIds |-> classIds,
                       st |-> [st EXCEPT
                                !.styles = AppendStyleLess(st.styles, targetStyleId, styleLess),
                                !.processedMerges = @ \cup {mergeKey}]]
                 ELSE acc
        ELSE IF MapHas(st.selectorToClassMap, selector)
        THEN LET generatedName == MapGet(st.selectorToClassMap, selector)
                 styleId == IF MapHas(st.styleIdMap, generatedName)
                            THEN MapGet(st.styleIdMap, generatedName) ELSE NoId
             IN  IF styleId # NoId /\ styleId \notin Range(classIds)
                 THEN [classIds |-> Append(classIds, styleId), st |-> st]
                 ELSE acc
        ELSE acc

\* One iteration of complexRules.forEach (lines 755-787) on the pair
\* acc = [classIds, st].
ApplyComplexRule(rule, chain, acc) ==
    LET st == acc.st
        classIds == acc.classIds
        selector == rule.key
        styleLess == rule.val
    IN  IF matches(chain, selector) # "match" THEN acc
        ELSE IF Len(classIds) > 0
        THEN LET targetStyleId == classIds[1]
                 mergeKey == <<targetStyleId, selector>>
             IN  IF mergeKey \notin st.processedMerges /\ StyleHas(st.styles, targetStyleId)
                 THEN [classIds |-> classIds,
                       st |-> [st EXCEPT
                                !.styles = AppendStyleLess(st.styles, targetStyleId, styleLess),
                                !.processedMerges = @ \cup {mergeKey}]]
                 ELSE acc
        ELSE IF MapHas(st.selectorToClassMap, selector)
        THEN LET generatedName == MapGet(st.selectorToClassMap, selector)
                 styleId == IF MapHas(st.styleIdMap, generatedName)
                            THEN MapGet(st.styleIdMap, generatedName) ELSE NoId
             IN  IF styleId # NoId /\ styleId \notin Range(classIds)
                 THEN [classIds |-> Append(classIds, styleId), st |-> st]
                 ELSE acc
        ELSE acc

RECURSIVE ApplyComplexRules(_, _, _)

\* ApplyComplexRules in which the error of one selector ends the loop.
ApplyComplexRules_StopAtError(rules, chain, acc) ==
    IF rules = <<>> THEN acc
    ELSE IF matches(chain, Head(rules).key) = "error" THEN acc
    ELSE ApplyComplexRules(Tail(rules), chain, ApplyComplexRule(Head(rules), chain, acc))

\* complexRules.forEach (lines 755-787), each iteration in its own try.
ApplyComplexRules(rules, chain, acc) ==
    IF rules = <<>> THEN acc
    ELSE ApplyComplexRules(Tail(rules), chain, ApplyComplexRule(Head(rules), chain, acc))

\* lines 713-727: what an ignored tag hands to its caller, given the
\* identifiers childIds its element children produced.
IgnoredResult(childIds) == IF childIds = <<>> THEN NoId ELSE childIds[1]

RECURSIVE processElement(_, _, _, _)
RECURSIVE WalkChildNodes(_, _, _, _, _, _)
RECURSIVE HoistChildren(_, _, _, _, _, _)

\* node.children.push(childId) with the result r of processElement on
\* child i, then the rest of the forEach.
PushChildAndGoOn(kids, i, chain, path, ids, r) ==
    WalkChildNodes(kids, i + 1, chain, path, r.st, Append(ids, r.id))

\* The forEach over el.childNodes of a kept element (lines 692-705,
\* 925-938, 944-957, 975-988): ids is the children list being filled.
WalkChildNodes(kids, i, chain, path, st, ids) ==
    IF i > Len(kids) THEN [ids |-> ids, st |-> st]
    ELSE IF IsElement(kids[i])
    THEN PushChildAndGoOn(kids, i, chain, path, ids,
                          processElement(kids[i], chain, Append(path, i), st))
    ELSE IF Trim(kids[i].text) # <<>>
    THEN LET textId == NextUuid(st)
         IN  WalkChildNodes(kids, i + 1, chain, path,
                [st EXCEPT !.uuid = textId,
                           !.nodes = Append(@, TextNode(textId, Trim(kids[i].text), Append(path, i)))],
                Append(ids, textId))
    ELSE WalkChildNodes(kids, i + 1, chain, path, st, ids)

\* if (childId) childIds.push(childId) with the result r of processElement
\* on child i of an ignored tag, then the rest of the forEach.
KeepChildAndGoOn(kids, i, chain, path, childIds, r) ==
    HoistChildren(kids, i + 1, chain, path, r.st,
                  IF r.id # NoId THEN Append(childIds, r.id) ELSE childIds)

\* The forEach over el.childNodes of an ignored tag (lines 717-724).
HoistChildren(kids, i, chain, path, st, childIds) ==
    IF i > Len(kids) THEN [ids |-> childIds, st |-> st]
    ELSE IF IsElement(kids[i])
    THEN KeepChildAndGoOn(kids, i, chain, path, childIds,
                          processElement(kids[i], chain, Append(path, i), st))
    ELSE HoistChildren(kids, i + 1, chain, path, st, childIds)

\* lines 725-726: the ignored tag is done, r holds its childIds.
IgnoredElement(r) == [id |-> IgnoredResult(r.ids), st |-> r.st]

\* lines 729-743: script and svg become one embed of their outer markup.
EmbedElement(el, path, st) ==
    LET id == NextUuid(st)
    IN  [id |-> id,
         st |-> [st EXCEPT !.uuid = id,
                           !.nodes = Append(@, createHtmlEmbed(id, OuterHTML(el), el.tag = "script", path))]]

\* this.nodes.push(node) of a node whose children w were walked.
PushElementNode(id, type, tag, dataTag, classIds, path, w) ==
    [id |-> id,
     st |-> [w.st EXCEPT !.nodes =
                Append(@, Node(id, type, tag, classIds, w.ids, FALSE, <<>>, FALSE, dataTag, path))]]

\* lines 940-941 and 960: the wrapper of a section's children is pushed,
\* then the section, whose only child it is.
PushSectionNodes(id, wrapperId, tagName, classIds, path, w) ==
    [id |-> id,
     st |-> [w.st EXCEPT !.nodes =
                Append(Append(@, BlockNode(wrapperId, w.ids)),
                       Node(id, "Section", tagName, classIds, <<wrapperId>>, FALSE, <<>>, FALSE, tagName, path))]]

\* Section: a direct div child that carries the class container.
hasBlockWrapper(el) ==
    \E i \in 1..Len(el.kids) :
        /\ IsElement(el.kids[i])
        /\ el.kids[i].tag = "div"
        /\ <<"container">> \in Range(el.kids[i].classes)

\* lines 790-992 and createDomNode: the node of a kept element whose
\* class list is classIds; st is the session after the class resolution.
KeptElement(el, chain, path, classIds, st) ==
    LET tagName == el.tag
        id == NextUuid(st)
    IN  IF tagName \notin DOMAIN TAG_MAP
        THEN PushElementNode(id, "DOM", "div", tagName, classIds, path,
                WalkChildNodes(el.kids, 1, chain, path, [st EXCEPT !.uuid = id], <<>>))
        ELSE IF TAG_MAP[tagName] = "Section" /\ ~hasBlockWrapper(el) /\ ElementChildren(el) # <<>>
        THEN PushSectionNodes(id, id + 1, tagName, classIds, path,
                WalkChildNodes(el.kids, 1, chain, path, [st EXCEPT !.uuid = id + 1], <<>>))
        ELSE PushElementNode(id, TAG_MAP[tagName], tagName, tagName, classIds, path,
                \* an Image draws a second identifier for its asset
                WalkChildNodes(el.kids, 1, chain, path,
                    [st EXCEPT !.uuid = IF TAG_MAP[tagName] = "Image" THEN id + 1 ELSE id], <<>>))

\* lines 745-992 once the class list is resolved: a = [classIds, st].
ResolvedElement(el, chain, path, a) == KeptElement(el, chain, path, a.classIds, a.st)

\* anc are the ancestors of el (parent first), path its position.
\* Returns [id, st]: the identifier handed to the caller and the session.
processElement(el, anc, path, st) ==
    IF el.tag \in IGNORED_TAGS
    THEN IgnoredElement(HoistChildren(el.kids, 1, <<Info(el)>> \o anc, path, st, <<>>))
    ELSE IF el.tag \in {"script", "svg"}
    THEN EmbedElement(el, path, st)
    ELSE ResolvedElement(el, <<Info(el)>> \o anc, path,
            ApplyComplexRules(st.complexRules, <<Info(el)>> \o anc,
                [classIds |-> ClassStyleIds(el.classes, st.styleIdMap), st |-> st]))

\* ------------------------------------------------------------------------
\* Graph Finalizer
\* ------------------------------------------------------------------------

\* nodeMap.get(id): the last node of this.nodes that carries the id.
NodeHas(nodes, id) == \E i \in 1..Len(nodes) : nodes[i]._id = id

NodeGet(nodes, id) ==
    nodes[CHOOSE i \in 1..Len(nodes) :
            nodes[i]._id = id /\ \A j \in (i + 1)..Len(nodes) : nodes[j]._id # id]

RECURSIVE addNodeAndChildren(_, _, _)
RECURSIVE AddChildren(_, _, _)

\* acc = [result, visited]
addNodeAndChildren(id, nodes, acc) ==
    IF id \in acc.visited THEN acc
    ELSE LET acc1 == [acc EXCEPT !.visited = @ \cup {id}]
         IN  IF ~NodeHas(nodes, id) THEN acc1
             ELSE LET node == NodeGet(nodes, id)
                  IN  AddChildren(node.children, nodes,
                                  [acc1 EXCEPT !.result = Append(@, node)])

AddChildren(ids, nodes, acc) ==
    IF ids = <<>> THEN acc
    ELSE AddChildren(Tail(ids), nodes, addNodeAndChildren(Head(ids), nodes, acc))

\* WithOrphans that leaves out the nodes the traversal did not reach.
WithOrphans_Dropped(nodes, walked) == walked.result

\* lines 589-596: the nodes the traversal did not reach are added.
WithOrphans(nodes, walked) ==
    walked.result \o SelectSeq(nodes, LAMBDA n : n._id \notin walked.visited)

reorderNodesWithRootFirst(nodes, rootId) ==
    WithOrphans(nodes, addNodeAndChildren(rootId, nodes, [result |-> <<>>, visited |-> {}]))

\* ------------------------------------------------------------------------
\* convert
\* ------------------------------------------------------------------------

\* The fields of a WebflowConverter after construction (lines 325-333).
NewConverter ==
    [nodes |-> <<>>, styles |-> <<>>, styleIdMap |-> <<>>, usedClasses |-> {},
     cssVariables |-> <<>>, complexRules |-> <<>>, selectorToClassMap |-> <<>>,
     processedMerges |-> {}]

\* ResetSession that leaves the class-name -> style-id map of the last call.
ResetSession_KeepStyleIdMap(self) ==
    [self EXCEPT !.nodes = <<>>, !.styles = <<>>,
                 !.processedMerges = {}, !.usedClasses = {}]

\* lines 339-344: the fields convert empties on entry.
ResetSession(self) ==
    [self EXCEPT !.nodes = <<>>, !.styles = <<>>, !.styleIdMap = <<>>,
                 !.processedMerges = {}, !.usedClasses = {}]

\* lines 382-383
ResetRules(self) == [self EXCEPT !.complexRules = <<>>, !.selectorToClassMap = <<>>]

\* lines 363-365 and 368-376: an inline block's entries are merged in.
RECURSIVE MergeVariables(_, _)
MergeVariables(variables, inline) ==
    IF inline = <<>> THEN variables
    ELSE MergeVariables(MapSet(variables, Head(inline).key, Head(inline).val), Tail(inline))

RECURSIVE MergeInlineStyles(_, _)

\* MergeInlineStyles in which the inline declarations replace the
\* external ones.
MergeInlineStyles_Replace(parsedStyles, inlineStyles) ==
    IF inlineStyles = <<>> THEN parsedStyles
    ELSE MergeInlineStyles(
            MapSet(parsedStyles, Head(inlineStyles).key, Head(inlineStyles).val),
            Tail(inlineStyles))

\* inlineStyles.forEach (lines 368-376).
MergeInlineStyles(parsedStyles, inlineStyles) ==
    IF inlineStyles = <<>> THEN parsedStyles
    ELSE LET className == Head(inlineStyles).key
             styleLess == Head(inlineStyles).val
         IN  MergeInlineStyles(
                IF ~MapHas(parsedStyles, className)
                THEN MapSet(parsedStyles, className, styleLess)
                ELSE MapSet(parsedStyles, className, MapGet(parsedStyles, className) \o styleLess),
                Tail(inlineStyles))

\* styleTags.forEach (lines 359-379) on acc = [parsedStyles, cssVariables].
RECURSIVE MergeStyleTags(_, _)
MergeStyleTags(styleTags, acc) ==
    IF styleTags = <<>> THEN acc
    ELSE LET styleContent == Head(styleTags).css
         IN  MergeStyleTags(Tail(styleTags),
                [parsedStyles |-> MergeInlineStyles(acc.parsedStyles, parseCssToStyleLess(styleContent)),
                 cssVariables |-> MergeVariables(acc.cssVariables, parseCssVariables(styleContent))])

\* PushStyle with the name bound to an identifier of its own, drawn by a
\* second uuidv4() instead of the style's.
PushStyle_OwnMapId(st, name, styleLess) ==
    LET styleId == NextUuid(st)
    IN  [st EXCEPT !.uuid = styleId + 1,
                   !.styleIdMap = MapSet(@, name, styleId + 1),
                   !.styles = Append(@, Style(styleId, name, styleLess))]

\* lines 397-414 and 425-442: a new style named name is pushed and the
\* name is bound to its identifier.
PushStyle(st, name, styleLess) ==
    LET styleId == NextUuid(st)
    IN  [st EXCEPT !.uuid = styleId,
                   !.styleIdMap = MapSet(@, name, styleId),
                   !.styles = Append(@, Style(styleId, name, styleLess))]

\* lines 393-418: a simple class selector.
SimpleClassRule(acc, selector, styleLess) ==
    LET className == ClassNameOf(selector)
    IN  IF className \in acc.st.usedClasses
        THEN [acc EXCEPT !.st = PushStyle(acc.st, className, styleLess)]
        ELSE [acc EXCEPT !.unusedCssRules =
                Append(@, selector \o <<"{">> \o styleLess \o <<"}">>)]

\* lines 419-444: a tag, combinator or complex selector.
ComplexRule(acc, selector, styleLess) ==
    LET generatedName == generateClassNameFromSelector(selector)
        st1 == [acc.st EXCEPT !.complexRules = MapSet(@, selector, styleLess),
                              !.selectorToClassMap = MapSet(@, selector, generatedName)]
    IN  [acc EXCEPT !.st = PushStyle(st1, generatedName, styleLess)]

\* parsedStyles.forEach (lines 390-445) on acc = [st, unusedCssRules].
RECURSIVE ProcessParsedStyles(_, _)
ProcessParsedStyles(parsedStyles, acc) ==
    IF parsedStyles = <<>> THEN acc
    ELSE LET selector == Head(parsedStyles).key
             styleLess == Head(parsedStyles).val
         IN  ProcessParsedStyles(Tail(parsedStyles),
                IF isSimpleClass(selector)
                THEN SimpleClassRule(acc, selector, styleLess)
                ELSE ComplexRule(acc, selector, styleLess))

RECURSIVE WalkTopLevel(_, _, _, _)

\* if (childId) topLevelChildren.push(childId), then the rest of the forEach.
KeepTopLevelAndGoOn(kids, i, topLevelChildren, r) ==
    WalkTopLevel(kids, i + 1, r.st,
                 IF r.id # NoId THEN Append(topLevelChildren, r.id) ELSE topLevelChildren)

\* lines 458-463: the children of doc.body (elements only).
WalkTopLevel(kids, i, st, topLevelChildren) ==
    IF i > Len(kids) THEN [ids |-> topLevelChildren, st |-> st]
    ELSE IF IsElement(kids[i])
    THEN KeepTopLevelAndGoOn(kids, i, topLevelChildren,
                             processElement(kids[i], BodyChain, <<i>>, st))
    ELSE WalkTopLevel(kids, i + 1, st, topLevelChildren)

\* lines 466-477: the parts of the relocated CSS text.
advancedCssPartsOf(advancedCss, unusedCssRules) ==
    (IF advancedCss # <<>> THEN <<advancedCss>> ELSE <<>>)
        \o (IF Len(unusedCssRules) > 0
            THEN << <<"/* Unused Classes */">>, Flatten(unusedCssRules) >>
            ELSE <<>>)

\* AppendCssEmbed with the embed put first among the top-level siblings.
AppendCssEmbed_First(r, advancedCssParts) ==
    IF Len(advancedCssParts) > 0
    THEN LET id == NextUuid(r.st)
             advancedCssContent == <<"<style>">> \o Flatten(advancedCssParts) \o <<"</style>">>
             embedNode == createHtmlEmbed(id, advancedCssContent, FALSE, <<>>)
         IN  [ids |-> <<id>> \o r.ids,
              st |-> [r.st EXCEPT !.uuid = id, !.nodes = Append(@, embedNode)]]
    ELSE r

\* AppendCssEmbed whose embed is marked as a script.
AppendCssEmbed_AsScript(r, advancedCssParts) ==
    IF Len(advancedCssParts) > 0
    THEN LET id == NextUuid(r.st)
             advancedCssContent == <<"<style>">> \o Flatten(advancedCssParts) \o <<"</style>">>
             embedNode == createHtmlEmbed(id, advancedCssContent, TRUE, <<>>)
         IN  [ids |-> Append(r.ids, id),
              st |-> [r.st EXCEPT !.uuid = id, !.nodes = Append(@, embedNode)]]
    ELSE r

\* lines 480-485: the embed of the relocated CSS, appended last.
AppendCssEmbed(r, advancedCssParts) ==
    IF Len(advancedCssParts) > 0
    THEN LET id == NextUuid(r.st)
             advancedCssContent == <<"<style>">> \o Flatten(advancedCssParts) \o <<"</style>">>
             embedNode == createHtmlEmbed(id, advancedCssContent, FALSE, <<>>)
         IN  [ids |-> Append(r.ids, id),
              st |-> [r.st EXCEPT !.uuid = id, !.nodes = Append(@, embedNode)]]
    ELSE r

\* ChooseRoot without the single-root case: one sibling is wrapped too.
ChooseRoot_AlwaysWrap(r) ==
    LET id == NextUuid(r.st)
    IN  [rootNodeId |-> id,
         st |-> [r.st EXCEPT !.uuid = id, !.nodes = Append(@, BlockNode(id, r.ids))]]

\* ChooseRoot whose empty container is never added to the node list.
ChooseRoot_EmptyNotPushed(r) ==
    LET id == NextUuid(r.st)
    IN  IF Len(r.ids) = 0 THEN [rootNodeId |-> id, st |-> [r.st EXCEPT !.uuid = id]]
        ELSE IF Len(r.ids) = 1 THEN [rootNodeId |-> r.ids[1], st |-> r.st]
        ELSE [rootNodeId |-> id,
              st |-> [r.st EXCEPT !.uuid = id, !.nodes = Append(@, BlockNode(id, r.ids))]]

\* lines 488-537: the root.  Returns [rootNodeId, st].
ChooseRoot(r) ==
    LET topLevelChildren == r.ids
    IN  IF Len(topLevelChildren) = 0
        THEN LET emptyId == NextUuid(r.st)
             IN  [rootNodeId |-> emptyId,
                  st |-> [r.st EXCEPT !.uuid = emptyId,
                                      !.nodes = Append(@, BlockNode(emptyId, <<>>))]]
        ELSE IF Len(topLevelChildren) = 1
        THEN [rootNodeId |-> topLevelChildren[1], st |-> r.st]
        ELSE LET wrapperId == NextUuid(r.st)
             IN  [rootNodeId |-> wrapperId,
                  st |-> [r.st EXCEPT !.uuid = wrapperId,
                                      !.nodes = Append(@, BlockNode(wrapperId, topLevelChildren))]]

SessionFields ==
    {"nodes", "styles", "styleIdMap", "usedClasses", "cssVariables",
     "complexRules", "selectorToClassMap", "processedMerges"}

\* lines 540-561: the document, and the converter as the call leaves it.
ReturnDocument(rooted) ==
    [self |-> [f \in SessionFields |-> rooted.st[f]],
     out |-> [nodes |-> reorderNodesWithRootFirst(rooted.st.nodes, rooted.rootNodeId),
              styles |-> rooted.st.styles,
              rootNodeId |-> rooted.rootNodeId]]

\* lines 449-451: the stylesheet text and the text of the style elements
\* doc.querySelectorAll('style') finds in the tree as it is by then.
CombinedCss(css, kids) ==
    css \o Flatten([i \in 1..Len(StyleTags(kids)) |-> StyleTags(kids)[i].css])

\* lines 447-561, with styled = [st, unusedCssRules] as the loop over the
\* parsed styles left them and kids the children of doc.body.
ConvertStyled(kids, css, styled) ==
    ReturnDocument(ChooseRoot(AppendCssEmbed(
        WalkTopLevel(kids, 1, styled.st, <<>>),
        advancedCssPartsOf(extractAdvancedCss(CombinedCss(css, kids)), styled.unusedCssRules))))

\* The session at line 389: the rule maps emptied (382-383), the variables
\* of the inline blocks merged in (363-365), the used classes collected
\* (387); uuid counts the identifiers drawn so far.
SessionAt389(self1, kids, cssVariables, uuid) ==
    [f \in SessionFields \cup {"uuid"} |->
        CASE f = "uuid" -> uuid
          [] f = "cssVariables" -> cssVariables
          [] f = "usedClasses" ->
                collectUsedClasses([tag |-> "body", classes |-> <<>>, kids |-> kids,
                                    text |-> <<>>, css |-> <<>>])
          [] OTHER -> ResetRules(self1)[f]]

\* lines 381-561, with merged = [parsedStyles, cssVariables] as the loop
\* over the style elements left them and kids the tree without them.
ConvertMerged(self1, kids, css, merged, uuid) ==
    ConvertStyled(kids, css,
        ProcessParsedStyles(merged.parsedStyles,
            [st |-> SessionAt389(self1, kids, merged.cssVariables, uuid),
             unusedCssRules |-> <<>>]))

\* convert(html, css) on the converter self, whose uuidv4 has handed out
\* the identifiers 1..uuid so far.  html is the sequence of the child
\* nodes of doc.body, css the items of the stylesheet text.
\* Returns [self, out]: the converter afterwards and the document (its
\* payload.nodes and payload.styles, with the rootNodeId the finalizer chose).
convert(self, html, css, uuid) ==
    ConvertMerged(ResetSession(self), RemoveStyleTags(html), css,
        MergeStyleTags(StyleTags(html),
            [parsedStyles |-> parseCssToStyleLess(css),
             cssVariables |-> parseCssVariables(css)]),
        uuid)

\* ------------------------------------------------------------------------
\* Inputs
\* ------------------------------------------------------------------------

El(tag, classes, kids) ==
    [tag |-> tag, classes |-> classes, kids |-> kids, text |-> <<>>, css |-> <<>>]

Rule(sel, decls) == [kind |-> "rule", sel |-> sel, decls |-> decls, inner |-> <<>>]

D(prop, vals) == [prop |-> prop, vals |-> vals]

\* .a { padding: 10px 20px; width: calc(100% - 20px); }
RuleA ==
    Rule(<<".", "a">>,
         <<D("padding", <<"10px", "20px">>), D("width", <<"calc(100%", "-", "20px)">>)>>)

\* .a div { color: blue; }
RuleDesc == Rule(<<".", "a", " ", "div">>, <<D("color", <<"blue">>)>>)

\* .a > div { gap: 4px; }
RuleChild == Rule(<<".", "a", " ", ">", " ", "div">>, <<D("gap", <<"4px">>)>>)

\* :root { --x: 1px; }
RuleRoot == Rule(<<":", "root">>, <<D("--x", <<"1px">>)>>)

Catalogue == <<RuleA, RuleDesc, RuleChild, RuleRoot>>

\* The stylesheets of the model: the rules of a subset of the catalogue,
\* in catalogue order.
Sheets ==
    { SelectSeq2(Catalogue, [r \in Range(Catalogue) |-> r \in S]) : S \in SUBSET Range(Catalogue) }

\* The element labels of the generated markup: a kept tag without and with
\* a class, and an ignored tag.
Labels ==
    { [tag |-> "div", classes |-> <<>>],
      [tag |-> "div", classes |-> << <<"a">> >>],
      [tag |-> "picture", classes |-> <<>>] }

\* The sequences of sibling trees with exactly n element nodes in all,
\* labelled from labels.
RECURSIVE Forests(_, _)
Forests(n, labels) ==
    IF n = 0 THEN { <<>> }
    ELSE UNION { { <<El(l.tag, l.classes, ks)>> \o rest :
                        l \in labels, ks \in Forests(k, labels), rest \in Forests(n - 1 - k, labels) } :
                 k \in 0..(n - 1) }

Docs(max) == UNION { Forests(n, Labels) : n \in 0..max }

Div(kids) == El("div", <<>>, kids)

DivA(kids) == El("div", << <<"a">> >>, kids)

Picture(kids) == El("picture", <<>>, kids)

\* Deeper markup than MaxNodes allows: an ignored tag with two kept
\* children, inside a kept element.
DeepDocs ==
    { << Div(<< Picture(<< Div(<<>>), Div(<<>>) >>) >>) >>,
      << DivA(<< Picture(<< Div(<<>>), DivA(<<>>) >>), Div(<<>>) >>) >>,
      << Div(<<>>), DivA(<< Picture(<< Picture(<<>>), Div(<<>>), Div(<<>>) >>) >>) >> }

Media(sel, inner) == [kind |-> "media", sel |-> sel, decls |-> <<>>, inner |-> inner]

\* An inline <style> element whose text holds the items css.
StyleEl(css) ==
    [tag |-> "style", classes |-> <<>>, kids |-> <<>>, text |-> <<>>, css |-> css]

\* div { color: red; }
RuleTag == Rule(<<"div">>, <<D("color", <<"red">>)>>)

\* div:bogus { color: red; }  (el.matches throws on the unknown pseudo-class)
RuleThrow == Rule(<<"div", ":", "bogus">>, <<D("color", <<"red">>)>>)

\* .a:hover { color: blue; }  (a valid selector that matches no element)
RuleHover == Rule(<<".", "a", ":", "hover">>, <<D("color", <<"blue">>)>>)

\* div[data-x] { color: red; }
RuleAttr == Rule(<<"div", "[", "data-x", "]">>, <<D("color", <<"red">>)>>)

\* @media (max-width:600px) { :root { --x: 1px; } }
MediaRoot == Media(<<"@media", "(max-width:600px)">>, <<RuleRoot>>)

\* Stylesheets with a tag selector, an invalid selector, an attribute
\* selector and an @media block, which the catalogue does not have.
ExtraSheets ==
    { <<RuleThrow, RuleTag>>,
      <<RuleThrow, RuleA, RuleDesc>>,
      <<RuleTag, RuleDesc>>,
      <<RuleA, RuleTag, RuleHover>>,
      <<RuleAttr, RuleTag>>,
      <<MediaRoot>>,
      <<RuleA, MediaRoot>> }

\* .a { color: red; }  and  .a { color: blue; }
RuleA2 == Rule(<<".", "a">>, <<D("color", <<"red">>)>>)

RuleA3 == Rule(<<".", "a">>, <<D("color", <<"blue">>)>>)

\* A text node.
Txt(t) == [tag |-> "#text", classes |-> <<>>, kids |-> <<>>, text |-> t, css |-> <<>>]

Section(kids) == El("section", <<>>, kids)

\* Markup with text runs: inside a kept element, at the top level of the
\* body and directly under an ignored tag; one run is whitespace only.
TextDocs ==
    { << Div(<< Txt(<<"hi">>), Div(<<>>), Txt(<<" ", "yo", " ">>), Txt(<<" ">>) >>) >>,
      << Txt(<<"hi">>), Div(<<>>) >>,
      << Div(<< Picture(<< Txt(<<"hi">>), Div(<<>>) >>) >>) >> }

\* Markup with section elements.
SectionDocs ==
    { << Section(<< Div(<<>>), Txt(<<"hi">>), DivA(<<>>) >>) >>,
      << Section(<< Txt(<<"hi">>) >>) >>,
      << Section(<<>>) >>,
      << Section(<< El("div", << <<"container">> >>, << Div(<<>>) >>), Div(<<>>) >>) >> }

\* Markup with svg and script elements.
EmbedDocs ==
    { << El("svg", <<>>, << El("g", << <<"a">> >>, <<>>) >>), Div(<<>>) >>,
      << Div(<< El("script", <<>>, << Txt(<<"x=1">>) >>) >>) >>,
      << DivA(<< El("svg", <<>>, << El("g", <<>>, << El("path", <<>>, <<>>) >>) >>) >>) >> }

\* Markup with inline style blocks.
StyleDocs ==
    { << StyleEl(<<RuleA2>>), DivA(<< StyleEl(<<RuleA3>>) >>) >>,
      << StyleEl(<<RuleRoot>>), Div(<<>>) >>,
      << Div(<< StyleEl(<<MediaRoot>>) >>) >>,
      << StyleEl(<<RuleA>>), DivA(<< Div(<<>>) >>) >>,
      << DivA(<<>>), StyleEl(<<RuleDesc, MediaRoot>>) >> }

Inputs ==
    { [html |-> h, css |-> c] :
        h \in Docs(MaxNodes) \cup DeepDocs \cup StyleDocs \cup TextDocs
                \cup SectionDocs \cup EmbedDocs,
        c \in Sheets \cup ExtraSheets }

NoInput == [html |-> <<>>, css |-> <<>>]

NoResult == [nodes |-> <<>>, styles |-> <<>>, rootNodeId |-> NoId]

\* ------------------------------------------------------------------------
\* Specification: one conversion of an input by a new converter
\* ------------------------------------------------------------------------

\* The call returns r = [self, out]: the converter keeps its fields and the
\* caller holds the document.
Returned(r) ==
    /\ this' = r.self
    /\ result' = r.out

Init ==
    /\ this = NewConverter
    /\ input \in Inputs
    /\ result = NoResult
    /\ calls = 0
    /\ pc = "ready"

Convert ==
    /\ pc = "ready"
    /\ Returned(convert(this, input.html, input.css, calls * IdBlock))
    /\ calls' = calls + 1
    /\ pc' = "done"
    /\ UNCHANGED input

Next == Convert

Spec == Init /\ [][Next]_vars

\* ------------------------------------------------------------------------
\* Specification: a sequence of conversions by one converter
\* ------------------------------------------------------------------------

SessionDocs ==
    { <<>>,
      << Div(<<>>) >>,
      << DivA(<<>>) >>,
      << DivA(<< Div(<<>>) >>) >>,
      << DivA(<< DivA(<<>>) >>), Div(<<>>) >>,
      << Picture(<< Div(<<>>), DivA(<<>>) >>) >> }

SessionInputs == { [html |-> h, css |-> c] : h \in SessionDocs, c \in Sheets }

InitSession ==
    /\ this = NewConverter
    /\ input = NoInput
    /\ result = NoResult
    /\ calls = 0
    /\ pc = "idle"

ConvertCall(inp) ==
    /\ calls < MaxCalls
    /\ Returned(convert(this, inp.html, inp.css, calls * IdBlock))
    /\ input' = inp
    /\ calls' = calls + 1
    /\ pc' = "done"

NextSession == \E inp \in SessionInputs : ConvertCall(inp)

SpecSession == InitSession /\ [][NextSession]_vars

\* ------------------------------------------------------------------------
\* Specification: the normalizer on one declaration of one rule
\* ------------------------------------------------------------------------

\* Value tokens without a marker.
PlainTokens == {"1px", "2px", "red", "#fff"}

PlainSeqs(n) == UNION { [1..k -> PlainTokens] : k \in 0..n }

\* The values of the model's declarations: one to MaxValues plain tokens,
\* or one token that holds a marker, after fewer than MaxValues plain
\* tokens and before at most one.
ValueSeqs ==
    (PlainSeqs(MaxValues) \ { <<>> })
        \cup { l \o <<m>> \o r :
                    m \in MarkerTokens,
                    l \in PlainSeqs(MaxValues - 1),
                    r \in PlainSeqs(1) }

PropTokens == {"margin", "padding", "border-radius", "gap", "background", "width"}

DeclInputs == { D(prop, vals) : prop \in PropTokens, vals \in ValueSeqs }

InitNormalize ==
    /\ this = NewConverter
    /\ input \in DeclInputs
    /\ result = <<>>
    /\ calls = 0
    /\ pc = "ready"

\* parseCssToStyleLess on the text `.a { prop: vals; }`.
Normalize ==
    /\ pc = "ready"
    /\ result' = parseCssToStyleLess(<< Rule(<<".", "a">>, <<input>>) >>)
    /\ pc' = "normalized"
    /\ UNCHANGED <<this, input, calls>>

NextNormalize == Normalize

SpecNormalize == InitNormalize /\ [][NextNormalize]_vars

\* ------------------------------------------------------------------------
\* Specification: the normalizer on a stylesheet text of several rules
\* ------------------------------------------------------------------------

SheetDecls ==
    { D("color", <<"red">>), D("color", <<"blue">>), D("padding", <<"1px", "2px">>),
      D("width", <<"calc(100%", "-", "1px)">>) }

\* The declaration blocks of the rules: one or two declarations.
DeclLists == UNION { [1..k -> SheetDecls] : k \in {1, 2} }

SheetSelectors == { <<".", "a">>, <<".", "a", " ", "div">> }

SheetRules == { Rule(sel, ds) : sel \in SheetSelectors, ds \in DeclLists }

SheetInputs == UNION { [1..n -> SheetRules] : n \in 1..MaxRules }

InitSheet ==
    /\ this = NewConverter
    /\ input \in SheetInputs
    /\ result = <<>>
    /\ calls = 0
    /\ pc = "ready"

ParseSheet ==
    /\ pc = "ready"
    /\ result' = parseCssToStyleLess(input)
    /\ pc' = "parsed"
    /\ UNCHANGED <<this, input, calls>>

NextSheet == ParseSheet

SpecSheet == InitSheet /\ [][NextSheet]_vars

\* ------------------------------------------------------------------------
\* Vocabulary of the properties
\* ------------------------------------------------------------------------

Done == pc = "done"

\* The tree the walk sees: the children of doc.body without style blocks.
Body == RemoveStyleTags(input.html)

Kept(n) == IsElement(n) /\ n.tag \notin IGNORED_TAGS

Ignored(n) == IsElement(n) /\ n.tag \in IGNORED_TAGS

\* The positions of the elements of a forest.
RECURSIVE PathsOf(_, _)
PathsOf(kids, prefix) ==
    UNION { IF IsElement(kids[i])
            THEN {Append(prefix, i)} \cup PathsOf(kids[i].kids, Append(prefix, i))
            ELSE {} : i \in 1..Len(kids) }

RECURSIVE ElemAt(_, _)
ElemAt(kids, path) ==
    IF Len(path) = 1 THEN kids[path[1]] ELSE ElemAt(kids[path[1]].kids, Tail(path))

\* The positions of the kept elements that stand at the top level once the
\* children of ignored tags are hoisted in their place.
RECURSIVE HoistedPaths(_, _, _)
HoistedPaths(kids, i, prefix) ==
    IF i > Len(kids) THEN <<>>
    ELSE (IF Ignored(kids[i]) THEN HoistedPaths(kids[i].kids, 1, Append(prefix, i))
          ELSE IF Kept(kids[i]) THEN << Append(prefix, i) >>
          ELSE <<>>) \o HoistedPaths(kids, i + 1, prefix)

HoistedTop == HoistedPaths(Body, 1, <<>>)

OutIds == { result.nodes[i]._id : i \in 1..Len(result.nodes) }

HasNodeOf(path) == \E i \in 1..Len(result.nodes) : result.nodes[i].src = path

NodeOf(path) == result.nodes[CHOOSE i \in 1..Len(result.nodes) : result.nodes[i].src = path]

\* The synthesized embed nodes that hold relocated CSS.
CssEmbeds ==
    { i \in 1..Len(result.nodes) :
        /\ result.nodes[i].type = "HtmlEmbed"
        /\ result.nodes[i].src = <<>> }

\* The selector -> declarations map of the call: stylesheet and inline blocks.
EffectiveStyles ==
    MergeStyleTags(StyleTags(input.html),
        [parsedStyles |-> parseCssToStyleLess(input.css), cssVariables |-> <<>>]).parsedStyles

UsedInMarkup ==
    collectUsedClasses([tag |-> "body", classes |-> <<>>, kids |-> Body, text |-> <<>>, css |-> <<>>])

UnusedClassRules ==
    { i \in 1..Len(EffectiveStyles) :
        /\ isSimpleClass(EffectiveStyles[i].key)
        /\ ClassNameOf(EffectiveStyles[i].key) \notin UsedInMarkup }

\* Relocated advanced or unused CSS text exists for the input.
RelocatedCssExists == extractAdvancedCss(input.css) # <<>> \/ UnusedClassRules # {}

IsSynthBlock(n, children) ==
    /\ n.type = "Block" /\ n.tag = "div" /\ n.classes = <<>> /\ n.src = <<>>
    /\ ~n.text /\ n.children = children

\* ------------------------------------------------------------------------
\* Properties
\* ------------------------------------------------------------------------

\* C1: every identifier in the children list of an output node is the _id
\* of a node of the output node list (no dangling child reference).
C1_NoDanglingChild ==
    Done => \A i \in 1..Len(result.nodes) :
                \A j \in 1..Len(result.nodes[i].children) :
                    result.nodes[i].children[j] \in OutIds

\* C2: the first node of the output is the root the finalizer chose, and
\* it is the only node whose identifier no node lists among its children.
C2_UniqueRoot ==
    Done =>
        /\ result.nodes[1]._id = result.rootNodeId
        /\ \A i \in 1..Len(result.nodes) :
            (\A k \in 1..Len(result.nodes) :
                result.nodes[i]._id \notin Range(result.nodes[k].children)) <=> (i = 1)

\* C3: every style identifier in the classes list of an output node is the
\* _id of exactly one style of the output style list, and no two styles of
\* the list share an _id.
C3_StyleRefsResolve ==
    Done =>
        /\ \A i \in 1..Len(result.nodes) :
            \A j \in 1..Len(result.nodes[i].classes) :
                Cardinality({ k \in 1..Len(result.styles) :
                                result.styles[k]._id = result.nodes[i].classes[j] }) = 1
        /\ \A k, l \in 1..Len(result.styles) :
            result.styles[k]._id = result.styles[l]._id => k = l

\* C3 witness: a converted element carries a class style and another one
\* carries a synthetic style.
C3_Witness ==
    /\ Done
    /\ Len(result.styles) >= 2
    /\ \E i, j \in 1..Len(result.nodes) :
        /\ result.nodes[i].classes # <<>> /\ result.nodes[j].classes # <<>>
        /\ result.nodes[i].classes # result.nodes[j].classes

\* C4: an ignored tag inside a kept element makes no node of its own, and
\* the node of every kept child of the ignored tag is listed among the
\* children of the kept element's node (all k of them, not only the first).
C4_HoistAllChildren ==
    Done =>
        \A p \in PathsOf(Body, <<>>) :
            Kept(ElemAt(Body, p)) =>
                \A i \in 1..Len(ElemAt(Body, p).kids) :
                    LET x == ElemAt(Body, p).kids[i]
                    IN  Ignored(x) =>
                            /\ ~HasNodeOf(Append(p, i))
                            /\ \A j \in 1..Len(x.kids) :
                                Kept(x.kids[j]) =>
                                    /\ HasNodeOf(Append(Append(p, i), j))
                                    /\ NodeOf(Append(Append(p, i), j))._id
                                            \in Range(NodeOf(p).children)

\* C5 as stated: with exactly one kept top-level element, whatever the
\* stylesheet, the root is that element's node and no wrapper is made
\* around it (no node lists it as a child).
C5_SingleRootAnyStylesheet ==
    (Done /\ Len(HoistedTop) = 1) =>
        /\ result.nodes[1] = NodeOf(HoistedTop[1])
        /\ result.rootNodeId = NodeOf(HoistedTop[1])._id
        /\ \A i \in 1..Len(result.nodes) :
            NodeOf(HoistedTop[1])._id \notin Range(result.nodes[i].children)

\* C5 amended: with exactly one kept top-level element, the root is that
\* element's node and no wrapper is made when the input has no relocated
\* CSS text; when it has, the root is a synthesized Block/div wrapper whose
\* children are the element's node and then the CSS embed node.
C5_SingleRoot ==
    (Done /\ Len(HoistedTop) = 1) =>
        IF ~RelocatedCssExists
        THEN /\ result.nodes[1] = NodeOf(HoistedTop[1])
             /\ result.rootNodeId = NodeOf(HoistedTop[1])._id
             /\ \A i \in 1..Len(result.nodes) :
                    NodeOf(HoistedTop[1])._id \notin Range(result.nodes[i].children)
        ELSE /\ Cardinality(CssEmbeds) = 1
             /\ result.nodes[1]._id = result.rootNodeId
             /\ \A e \in CssEmbeds :
                    IsSynthBlock(result.nodes[1],
                                 <<NodeOf(HoistedTop[1])._id, result.nodes[e]._id>>)

\* C5 witness: one kept top-level element with a child of its own, styled
\* by a stylesheet that relocates nothing.
C5_Witness ==
    /\ Done /\ Len(HoistedTop) = 1 /\ ~RelocatedCssExists
    /\ result.styles # <<>>
    /\ NodeOf(HoistedTop[1]).children # <<>>
    /\ result.nodes[1] = NodeOf(HoistedTop[1])

\* The markup's top-level nodes are N > 1 elements, all of them kept.
ManyKeptTop == Len(Body) > 1 /\ \A i \in 1..Len(Body) : Kept(Body[i])

TopIds == [i \in 1..Len(Body) |-> NodeOf(<<i>>)._id]

\* C6 as stated: with N > 1 top-level elements, whatever the stylesheet,
\* the root is a synthesized Block/div wrapper whose children are exactly
\* the N nodes of those elements, in source order, and nothing else.
C6_WrapperExactlyTopLevel ==
    (Done /\ ManyKeptTop) =>
        /\ result.nodes[1]._id = result.rootNodeId
        /\ IsSynthBlock(result.nodes[1], TopIds)

\* C6 amended: with N > 1 top-level elements, the root is a synthesized
\* Block/div wrapper whose children are the N nodes of those elements, in
\* source order, followed by the CSS embed node when the input has
\* relocated CSS text, and by nothing when it has none.
C6_Wrapper ==
    (Done /\ ManyKeptTop) =>
        /\ result.nodes[1]._id = result.rootNodeId
        /\ \A i \in 1..Len(Body) : HasNodeOf(<<i>>)
        /\ IF RelocatedCssExists
           THEN /\ Cardinality(CssEmbeds) = 1
                /\ \A e \in CssEmbeds :
                    IsSynthBlock(result.nodes[1], Append(TopIds, result.nodes[e]._id))
           ELSE /\ CssEmbeds = {}
                /\ IsSynthBlock(result.nodes[1], TopIds)

\* C6 witness: three kept top-level elements and relocated CSS, so the
\* wrapper has four children.
C6_Witness ==
    /\ Done /\ ManyKeptTop /\ RelocatedCssExists
    /\ Len(Body) = 3
    /\ Len(result.nodes[1].children) = 4

\* C7 as stated: with no visible top-level element, whatever the
\* stylesheet, the root is one synthesized empty Block/div container.
C7_EmptyRootAnyStylesheet ==
    (Done /\ HoistedTop = <<>>) =>
        /\ result.nodes[1]._id = result.rootNodeId
        /\ IsSynthBlock(result.nodes[1], <<>>)

\* C7 amended: with no visible top-level element, the output is the one
\* synthesized empty Block/div container when the input has no relocated
\* CSS text; when it has, the output is the CSS embed node alone, which is
\* the root.
C7_EmptyRoot ==
    (Done /\ HoistedTop = <<>>) =>
        IF ~RelocatedCssExists
        THEN result.nodes = << BlockNode(result.rootNodeId, <<>>) >>
        ELSE /\ Len(result.nodes) = 1
             /\ CssEmbeds = {1}
             /\ result.nodes[1]._id = result.rootNodeId
             /\ ~result.nodes[1].script
             /\ result.nodes[1].children = <<>>

\* C7 witness: markup made of ignored tags only, with a stylesheet that
\* relocates nothing, gives the empty container.
C7_Witness ==
    /\ Done /\ HoistedTop = <<>> /\ ~RelocatedCssExists
    /\ Body # <<>> /\ input.css # <<>>
    /\ result.nodes = << BlockNode(result.rootNodeId, <<>>) >>

\* The document with every identifier moved down by base ('' stays '').
Shift(id, base) == IF id = NoId THEN NoId ELSE id - base

ShiftAll(ids, base) == [i \in 1..Len(ids) |-> Shift(ids[i], base)]

Normalized(out, base) ==
    [nodes |-> [i \in 1..Len(out.nodes) |->
                    [out.nodes[i] EXCEPT !._id = Shift(@, base),
                                         !.classes = ShiftAll(@, base),
                                         !.children = ShiftAll(@, base)]],
     styles |-> [i \in 1..Len(out.styles) |-> [out.styles[i] EXCEPT !._id = Shift(@, base)]],
     rootNodeId |-> Shift(out.rootNodeId, base)]

\* The result and the session fields of the last call are, with their
\* identifiers moved down by base, those of the conversion fresh.
SameAsFresh(fresh, base) ==
    /\ Normalized(result, base) = fresh.out
    /\ Len(this.nodes) = Len(fresh.self.nodes)
    /\ [i \in 1..Len(this.styles) |-> [this.styles[i] EXCEPT !._id = Shift(@, base)]]
            = fresh.self.styles
    /\ [i \in 1..Len(this.styleIdMap) |->
            [this.styleIdMap[i] EXCEPT !.val = Shift(@, base)]] = fresh.self.styleIdMap
    /\ this.selectorToClassMap = fresh.self.selectorToClassMap
    /\ this.complexRules = fresh.self.complexRules
    /\ this.usedClasses = fresh.self.usedClasses
    /\ this.cssVariables = fresh.self.cssVariables
    /\ { <<Shift(k[1], base), k[2]>> : k \in this.processedMerges }
            = fresh.self.processedMerges

\* C8: the result of every call of a sequence of convert calls on one
\* converter is, up to the fresh identifiers, the result a new converter
\* gives for the same markup and stylesheet.
C8_NoStateSurvives ==
    (calls >= 1) => SameAsFresh(convert(NewConverter, input.html, input.css, 0),
                                (calls - 1) * IdBlock)

\* C8 witness: a later call of the sequence whose result has styled nodes,
\* on a converter that an earlier call left with its session fields set.
C8_Witness ==
    /\ calls >= 2
    /\ result.styles # <<>>
    /\ \E i \in 1..Len(result.nodes) : result.nodes[i].classes # <<>>
    /\ this.styleIdMap # <<>> /\ this.processedMerges # {}

\* C9: no two styles of the output style list have the same name.
C9_UniqueStyleNames ==
    Done => \A k, l \in 1..Len(result.styles) :
                result.styles[k].name = result.styles[l].name => k = l

\* The rules of the stylesheet for a simple class selector whose class no
\* counted element of the markup carries.
UnusedSheetRules ==
    { i \in 1..Len(input.css) :
        /\ input.css[i].kind = "rule"
        /\ isSimpleClass(input.css[i].sel)
        /\ ClassNameOf(input.css[i].sel) \notin UsedInMarkup }

\* C10: for a rule of a simple class selector .c whose class no counted
\* element carries, no output style is named c, and the declaration text
\* of the rule stands as written in the text of the relocated-CSS embed
\* node, after the unused-classes label.
C10_UnusedClassVerbatim ==
    Done =>
        \A r \in UnusedSheetRules :
            /\ \A k \in 1..Len(result.styles) :
                result.styles[k].name # ClassNameOf(input.css[r].sel)
            /\ \E e \in CssEmbeds :
                /\ Includes(result.nodes[e].v, <<"/* Unused Classes */">>)
                /\ Includes(result.nodes[e].v, RawDecls(input.css[r].decls))

\* ------------------------------------------------------------------------
\* Properties of the normalizer (SpecNormalize)
\* ------------------------------------------------------------------------

Normalized1 == pc = "normalized"

\* The declaration string the normalizer gave the rule ('' when the rule
\* got no entry).
Emitted == IF result = <<>> THEN <<>> ELSE result[1].val

HasMarker(vals) == \E i \in 1..Len(vals) : vals[i] \in MarkerTokens

\* C12: a declaration whose value holds one of the markers var(--, calc(,
\* clamp(, min(, max( is emitted as `property: @raw<|value|>;` with the
\* whole value inside, and is not shorthand-expanded whatever the
\* property; a value that holds no marker is never wrapped.
C12_MarkerValuesWrapped ==
    Normalized1 =>
        IF HasMarker(input.vals)
        THEN Emitted = <<input.prop, ":", "@raw<|">> \o input.vals \o <<"|>", ";">>
        ELSE "@raw<|" \notin Range(Emitted) /\ "|>" \notin Range(Emitted)

\* C12 witness: a margin of three tokens, the second of which opens a
\* calc(), is emitted wrapped, under the name margin.
C12_Witness ==
    /\ Normalized1
    /\ input.prop = "margin" /\ Len(input.vals) = 3
    /\ input.vals[2] = "calc(100%"
    /\ Emitted = <<"margin", ":", "@raw<|">> \o input.vals \o <<"|>", ";">>

\* The side values of a 1..4-value box shorthand by the CSS rules.
BoxTop(v) == v[1]

BoxRight(v) == IF Len(v) >= 2 THEN v[2] ELSE v[1]

BoxBottom(v) == IF Len(v) >= 3 THEN v[3] ELSE v[1]

BoxLeft(v) == IF Len(v) = 4 THEN v[4] ELSE BoxRight(v)

\* C13: a margin or padding shorthand of 1, 2, 3 or 4 values expands to
\* its -top, -right, -bottom, -left longhands, in that order, with the
\* values the CSS box-model rules give the four sides.
C13_BoxShorthand ==
    (Normalized1 /\ input.prop \in {"margin", "padding"}
        /\ ~HasMarker(input.vals) /\ Len(input.vals) \in 1..4) =>
        \E t, r, b, l \in {"margin-top", "margin-right", "margin-bottom", "margin-left",
                          "padding-top", "padding-right", "padding-bottom", "padding-left"} :
            /\ t = Longhand(input.prop, "top") /\ r = Longhand(input.prop, "right")
            /\ b = Longhand(input.prop, "bottom") /\ l = Longhand(input.prop, "left")
            /\ Emitted = <<t, ":", BoxTop(input.vals), ";",
                           r, ":", BoxRight(input.vals), ";",
                           b, ":", BoxBottom(input.vals), ";",
                           l, ":", BoxLeft(input.vals), ";">>

\* C13 witness: a three-value padding with three different values.
C13_Witness ==
    /\ Normalized1
    /\ input = D("padding", <<"1px", "2px", "red">>)
    /\ Emitted = <<"padding-top", ":", "1px", ";", "padding-right", ":", "2px", ";",
                   "padding-bottom", ":", "red", ";", "padding-left", ":", "2px", ";">>

\* The declarations of a declaration string, as (property, value) pairs.
DeclPairs(text) ==
    { <<text[i], text[i + 2]>> : i \in { j \in 1..(Len(text) - 3) : j % 4 = 1 } }

\* C14: a border-radius of 1, 2 or 4 values expands to the four corner
\* longhands: one value goes to all corners; of two values the first goes
\* to top-left and bottom-right and the second to top-right and
\* bottom-left; four values go to top-left, top-right, bottom-right,
\* bottom-left, emitted in that order.
C14_RadiusShorthand ==
    (Normalized1 /\ input.prop = "border-radius" /\ ~HasMarker(input.vals)) =>
        LET v == input.vals
        IN  /\ Len(v) \in {1, 2, 4} => Len(Emitted) = 16
            /\ Len(v) = 1 =>
                DeclPairs(Emitted) =
                    { <<"border-top-left-radius", v[1]>>, <<"border-top-right-radius", v[1]>>,
                      <<"border-bottom-right-radius", v[1]>>, <<"border-bottom-left-radius", v[1]>> }
            /\ Len(v) = 2 =>
                DeclPairs(Emitted) =
                    { <<"border-top-left-radius", v[1]>>, <<"border-top-right-radius", v[2]>>,
                      <<"border-bottom-right-radius", v[1]>>, <<"border-bottom-left-radius", v[2]>> }
            /\ Len(v) = 4 =>
                Emitted = <<"border-top-left-radius", ":", v[1], ";",
                            "border-top-right-radius", ":", v[2], ";",
                            "border-bottom-right-radius", ":", v[3], ";",
                            "border-bottom-left-radius", ":", v[4], ";">>

\* C14 witness: a two-value border-radius with two different values.
C14_Witness ==
    /\ Normalized1
    /\ input = D("border-radius", <<"1px", "2px">>)
    /\ <<"border-bottom-right-radius", "1px">> \in DeclPairs(Emitted)
    /\ <<"border-bottom-left-radius", "2px">> \in DeclPairs(Emitted)

\* ------------------------------------------------------------------------
\* Properties of the conversion (Spec), continued
\* ------------------------------------------------------------------------

\* The items of the inline style blocks of the markup, in document order.
InlineCss ==
    Flatten([i \in 1..Len(StyleTags(input.html)) |-> StyleTags(input.html)[i].css])

\* C11: every advanced construct written in an inline style block of the
\* markup (what the extractor emits for the text of the blocks) stands in
\* the text of the relocated-CSS embed node, as it does when it is written
\* in the stylesheet text.
C11_InlineAdvancedRelocated ==
    Done =>
        \A k \in 1..Len(advancedRulesOf(InlineCss)) :
            \E e \in CssEmbeds :
                Includes(result.nodes[e].v, advancedRulesOf(InlineCss)[k])

\* The element at path p of the walked tree followed by its ancestors.
RECURSIVE ChainOf(_, _, _)
ChainOf(kids, path, anc) ==
    IF Len(path) = 1 THEN <<Info(kids[path[1]])>> \o anc
    ELSE ChainOf(kids[path[1]].kids, Tail(path), <<Info(kids[path[1]])>> \o anc)

ChainAt(p) == ChainOf(Body, p, BodyChain)

\* The positions of the elements the walk makes a node for and resolves
\* the classes of: kept, not script or svg, and not inside one.
StyledPaths ==
    { p \in PathsOf(Body, <<>>) :
        /\ Kept(ElemAt(Body, p))
        /\ \A k \in 1..Len(p) : ElemAt(Body, SubSeq(p, 1, k)).tag \notin {"script", "svg"} }

\* The class-based styles of the element at p, in class order.
ClassIdsAt(p) == ClassStyleIds(ElemAt(Body, p).classes, this.styleIdMap)

\* The complex rules of the call whose selector the element at p matches.
MatchingRules(p) ==
    { i \in 1..Len(this.complexRules) :
        matches(ChainAt(p), this.complexRules[i].key) = "match" }

ThrowingRules ==
    { i \in 1..Len(this.complexRules) : SelectorThrows(this.complexRules[i].key) }

\* No other selector of the call was given the synthetic name of rule i.
OwnName(i) ==
    \A j \in 1..Len(this.selectorToClassMap) :
        this.selectorToClassMap[j].val = this.selectorToClassMap[i].val => j = i

\* C15: a complex selector on which matching raises an error contributes
\* nothing (no merge pair names it, its synthetic style is on no node and
\* keeps its declarations), while every element of the walk still has its
\* node and every selector the element does match still has its effect: a
\* merge pair on the element's first class style, or a style on the node.
C15_MatchErrorSwallowed ==
    (Done /\ ThrowingRules # {}) =>
        /\ \A i \in ThrowingRules :
            /\ \A m \in this.processedMerges : m[2] # this.complexRules[i].key
            /\ OwnName(i) =>
                \A k \in 1..Len(result.styles) :
                    result.styles[k].name = this.selectorToClassMap[i].val =>
                        /\ result.styles[k].styleLess = this.complexRules[i].val
                        /\ \A n \in 1..Len(result.nodes) :
                            result.styles[k]._id \notin Range(result.nodes[n].classes)
        /\ \A p \in StyledPaths :
            /\ HasNodeOf(p)
            /\ \A j \in MatchingRules(p) :
                IF ClassIdsAt(p) # <<>>
                THEN <<ClassIdsAt(p)[1], this.complexRules[j].key>> \in this.processedMerges
                ELSE NodeOf(p).classes # <<>>

\* C15 witness: an element matches a selector that stands after a selector
\* on which matching raises an error, and its node carries a style.
C15_Witness ==
    /\ Done
    /\ \E i \in ThrowingRules : \E p \in StyledPaths : \E j \in MatchingRules(p) :
        /\ i < j
        /\ ClassIdsAt(p) = <<>>
        /\ NodeOf(p).classes # <<>>
        /\ Len(p) > 1

\* The entries of the selector -> declarations map that were given a
\* style: all but the simple class selectors no counted element uses.
\* The k-th style of the output was made for the k-th of them.
StyledSelectors ==
    SelectSeq(EffectiveStyles,
              LAMBDA e : ~isSimpleClass(e.key) \/ ClassNameOf(e.key) \in UsedInMarkup)

\* The selectors merged into the style id, by the merge pairs of the call.
MergedInto(id) == { m[2] : m \in { x \in this.processedMerges : x[1] = id } }

RECURSIVE DeclLenSum(_)
DeclLenSum(sels) ==
    IF sels = {} THEN 0
    ELSE LET S == CHOOSE x \in sels : TRUE
         IN  Len(MapGet(this.complexRules, S)) + DeclLenSum(sels \ {S})

StyleIndexOf(S) == CHOOSE k \in 1..Len(StyledSelectors) : StyledSelectors[k].key = S

\* C17: when an element without a class-based style matches a complex
\* selector S, the one style made for S is in the classes list of the
\* element's node, for every such S, and the declaration string of that
\* style is the normalized declarations of S.
C17_SyntheticPerSelector ==
    Done =>
        \A p \in StyledPaths :
            ClassIdsAt(p) = <<>> =>
                \A j \in MatchingRules(p) :
                    LET S == this.complexRules[j].key
                    IN  /\ Cardinality({ k \in 1..Len(StyledSelectors) :
                                            StyledSelectors[k].key = S }) = 1
                        /\ result.styles[StyleIndexOf(S)]._id \in Range(NodeOf(p).classes)
                        /\ result.styles[StyleIndexOf(S)].styleLess = this.complexRules[j].val

\* C18: every style of the output style list is referenced by at least
\* one output node (a selector no element uses is given no style).
C18_EveryStyleReferenced ==
    Done =>
        \A k \in 1..Len(result.styles) :
            \E n \in 1..Len(result.nodes) :
                result.styles[k]._id \in Range(result.nodes[n].classes)

\* C19: if relocated advanced or unused CSS text exists, exactly one CSS
\* embed node exists; it is passive, holds the advanced text and every
\* unused class rule between a style tag's opening and closing, and is the
\* last top-level sibling: the last child of the root wrapper, after the
\* nodes of the kept top-level elements, or the root itself when there is
\* no other sibling.  If no such text exists there is no CSS embed node.
C19_OneCssEmbedLast ==
    Done =>
        IF RelocatedCssExists
        THEN /\ Cardinality(CssEmbeds) = 1
             /\ \A e \in CssEmbeds :
                LET node == result.nodes[e]
                IN  /\ ~node.script /\ node.children = <<>> /\ node.classes = <<>>
                    /\ Head(node.v) = "<style>" /\ node.v[Len(node.v)] = "</style>"
                    /\ Includes(node.v, extractAdvancedCss(input.css))
                    /\ \A u \in UnusedClassRules :
                        Includes(node.v, EffectiveStyles[u].key \o <<"{">>
                                            \o EffectiveStyles[u].val \o <<"}">>)
                    /\ IF HoistedTop = <<>>
                       THEN result.rootNodeId = node._id
                       ELSE LET root == result.nodes[1]
                            IN  /\ root._id = result.rootNodeId
                                /\ IsSynthBlock(root, root.children)
                                /\ root.children[Len(root.children)] = node._id
                                /\ \A c \in 1..(Len(root.children) - 1) :
                                    root.children[c] # node._id
                                /\ \A i \in 1..Len(Body) :
                                    Kept(Body[i]) =>
                                        \E c \in 1..(Len(root.children) - 1) :
                                            root.children[c] = NodeOf(<<i>>)._id
        ELSE CssEmbeds = {}

\* C19 witness: advanced text and an unused class rule are relocated by
\* one embed node that stands after two kept top-level elements.
C19_Witness ==
    /\ Done
    /\ extractAdvancedCss(input.css) # <<>> /\ UnusedClassRules # {}
    /\ Cardinality({ i \in 1..Len(Body) : Kept(Body[i]) }) >= 2
    /\ \E e \in CssEmbeds :
        /\ result.nodes[1].children[Len(result.nodes[1].children)] = result.nodes[e]._id
        /\ Includes(result.nodes[e].v, <<"/* Unused Classes */">>)

\* The number of places of the text s at which the text t stands.
Occurrences(s, t) ==
    Cardinality({ i \in 0..(Len(s) - Len(t)) : SubSeq(s, i + 1, i + Len(t)) = t })

\* The number of times the rule r is written in the stylesheet text.
TimesWritten(r) ==
    Cardinality({ j \in 1..Len(AllRules(input.css)) : AllRules(input.css)[j] = r })

\* C20: no rule of the stylesheet text stands in the text of the CSS embed
\* node more often than it is written in the stylesheet: a rule emitted
\* under one category of the extractor is not emitted again under another
\* (a :root block inside an @media block appears once).
C20_NoRuleTwice ==
    Done =>
        \A e \in CssEmbeds :
            \A j \in 1..Len(AllRules(input.css)) :
                Occurrences(result.nodes[e].v, RuleText(AllRules(input.css)[j]))
                    <= TimesWritten(AllRules(input.css)[j])

\* The normalizer's map of the stylesheet text and of each inline block.
ExternalMap == parseCssToStyleLess(input.css)

InlineMaps ==
    [i \in 1..Len(StyleTags(input.html)) |-> parseCssToStyleLess(StyleTags(input.html)[i].css)]

DeclsIn(map, S) == IF MapHas(map, S) THEN MapGet(map, S) ELSE <<>>

\* The external declarations of S followed by those of each inline block
\* that defines S, in document order.
ExternalThenInline(S) ==
    DeclsIn(ExternalMap, S)
        \o Flatten([i \in 1..Len(InlineMaps) |-> DeclsIn(InlineMaps[i], S)])

DefinedSelectors ==
    { ExternalMap[i].key : i \in 1..Len(ExternalMap) }
        \cup UNION { { InlineMaps[t][i].key : i \in 1..Len(InlineMaps[t]) } :
                        t \in 1..Len(InlineMaps) }

\* s begins with t.
StartsWith(s, t) == Len(s) >= Len(t) /\ SubSeq(s, 1, Len(t)) = t

\* C21: the declarations the conversion uses for a selector are the
\* external declarations followed by the inline ones, block after block in
\* document order (those of one source alone when only one defines it):
\* they are the text a complex selector is recorded with, the beginning of
\* the declaration string of a used class's style, and the text an unused
\* class rule is relocated with.
C21_InlineAppended ==
    Done =>
        \A S \in DefinedSelectors :
            IF ~isSimpleClass(S)
            THEN /\ MapHas(this.complexRules, S)
                 /\ MapGet(this.complexRules, S) = ExternalThenInline(S)
            ELSE IF ClassNameOf(S) \in this.usedClasses
            THEN \E k \in 1..Len(result.styles) :
                    /\ result.styles[k].name = ClassNameOf(S)
                    /\ StartsWith(result.styles[k].styleLess, ExternalThenInline(S))
            ELSE \E e \in CssEmbeds :
                    Includes(result.nodes[e].v,
                             S \o <<"{">> \o ExternalThenInline(S) \o <<"}">>)

\* C21 witness: one class selector is defined by the stylesheet and by two
\* inline blocks, with three different declaration texts, and is used.
C21_Witness ==
    /\ Done
    /\ Len(InlineMaps) = 2
    /\ \E S \in DefinedSelectors :
        /\ isSimpleClass(S) /\ ClassNameOf(S) \in this.usedClasses
        /\ MapHas(ExternalMap, S) /\ MapHas(InlineMaps[1], S) /\ MapHas(InlineMaps[2], S)
        /\ MapGet(InlineMaps[1], S) # MapGet(InlineMaps[2], S)
        /\ \E k \in 1..Len(result.styles) :
            StartsWith(result.styles[k].styleLess,
                       MapGet(ExternalMap, S) \o MapGet(InlineMaps[1], S)
                            \o MapGet(InlineMaps[2], S))

\* ------------------------------------------------------------------------
\* Properties of the normalizer on a stylesheet text (SpecSheet)
\* ------------------------------------------------------------------------

\* The normalized declarations of every rule of the text written for the
\* selector sel, in source order.
WrittenFor(sel) ==
    Flatten([i \in 1..Len(input) |->
                IF input[i].sel = sel THEN NormalizeDecls(input[i].decls) ELSE <<>>])

\* C22: for every selector of the stylesheet text, the normalizer's
\* declaration string is the expanded or wrapped declarations of every
\* pair written for the selector, in source order, none replacing another,
\* also when the selector is written in more than one rule.
C22_AllDeclarationsKept ==
    (pc = "parsed") =>
        \A i \in 1..Len(input) :
            WrittenFor(input[i].sel) # <<>> =>
                /\ MapHas(result, input[i].sel)
                /\ MapGet(result, input[i].sel) = WrittenFor(input[i].sel)

\* ------------------------------------------------------------------------
\* Properties of the conversion (Spec): text, sections, embeds, ordering
\* ------------------------------------------------------------------------

\* The positions of the text runs of the walked markup: those of the body
\* and of every element that is not a script or svg, nor inside one.
RECURSIVE TextPathsOf(_, _)
TextPathsOf(kids, prefix) ==
    UNION { IF ~IsElement(kids[i]) THEN { Append(prefix, i) }
            ELSE IF kids[i].tag \in {"script", "svg"} THEN {}
            ELSE TextPathsOf(kids[i].kids, Append(prefix, i)) : i \in 1..Len(kids) }

\* The prefixes of p that are positions of kept elements above p.
KeptAbove(p) ==
    { k \in 1..(Len(p) - 1) : Kept(ElemAt(Body, SubSeq(p, 1, k))) }

\* The node of the nearest kept ancestor of position p.
NearestKept(p) ==
    NodeOf(SubSeq(p, 1, CHOOSE k \in KeptAbove(p) : \A j \in KeptAbove(p) : j <= k))

\* The identifier id is a child of node n, or of the synthesized wrapper
\* that is n's only child.
ChildOrWrapped(id, n) ==
    \/ id \in Range(n.children)
    \/ \E w \in 1..Len(result.nodes) :
        /\ n.children = << result.nodes[w]._id >>
        /\ IsSynthBlock(result.nodes[w], result.nodes[w].children)
        /\ id \in Range(result.nodes[w].children)

\* C23: every text run of the walked markup that is not whitespace only
\* (under a kept element, under an ignored tag, at the top level of the
\* body) has exactly one Text node, which holds the run trimmed and is a
\* child of the nearest kept ancestor's node; a whitespace-only run has
\* no node.
C23_TextRuns ==
    Done =>
        \A p \in TextPathsOf(Body, <<>>) :
            IF Trim(ElemAt(Body, p).text) # <<>>
            THEN /\ Cardinality({ i \in 1..Len(result.nodes) : result.nodes[i].src = p }) = 1
                 /\ NodeOf(p).text
                 /\ NodeOf(p).v = Trim(ElemAt(Body, p).text)
                 /\ KeptAbove(p) # {} => ChildOrWrapped(NodeOf(p)._id, NearestKept(p))
            ELSE ~HasNodeOf(p)

\* The child positions of the element at p that hold a kept element or a
\* text run that is not whitespace only.
DirectIdx(p) ==
    { i \in 1..Len(ElemAt(Body, p).kids) :
        \/ Kept(ElemAt(Body, p).kids[i])
        \/ (~IsElement(ElemAt(Body, p).kids[i]) /\ Trim(ElemAt(Body, p).kids[i].text) # <<>>) }

PosIn(list, id) == CHOOSE k \in 1..Len(list) : list[k] = id

\* The nodes of the direct children of the element at p are in list, in
\* document order.
ChildrenInOrder(p, list) ==
    \A i \in DirectIdx(p) :
        /\ HasNodeOf(Append(p, i))
        /\ NodeOf(Append(p, i))._id \in Range(list)
        /\ \A j \in DirectIdx(p) :
            (i < j /\ HasNodeOf(Append(p, j)) /\ NodeOf(Append(p, j))._id \in Range(list)) =>
                PosIn(list, NodeOf(Append(p, i))._id) < PosIn(list, NodeOf(Append(p, j))._id)

\* The section has a direct element child or a direct text run that is
\* not whitespace only.
HasDirectContent(el) ==
    \E i \in 1..Len(el.kids) : IsElement(el.kids[i]) \/ Trim(el.kids[i].text) # <<>>

\* C24: a section with a direct element or text child and no direct
\* div.container child has one synthesized Block/div wrapper as its only
\* child, which lists the section's children in document order; any other
\* section lists its children itself and has no synthesized wrapper.
C24_SectionWrapper ==
    Done =>
        \A p \in StyledPaths :
            ElemAt(Body, p).tag = "section" =>
                IF HasDirectContent(ElemAt(Body, p)) /\ ~hasBlockWrapper(ElemAt(Body, p))
                THEN \E w \in 1..Len(result.nodes) :
                        /\ NodeOf(p).children = << result.nodes[w]._id >>
                        /\ IsSynthBlock(result.nodes[w], result.nodes[w].children)
                        /\ ChildrenInOrder(p, result.nodes[w].children)
                ELSE /\ ChildrenInOrder(p, NodeOf(p).children)
                     /\ \A w \in 1..Len(result.nodes) :
                            result.nodes[w]._id \in Range(NodeOf(p).children) =>
                                ~IsSynthBlock(result.nodes[w], result.nodes[w].children)

\* Position q is strictly inside the element at position p.
Inside(q, p) == Len(q) > Len(p) /\ SubSeq(q, 1, Len(p)) = p

\* The positions of the script and svg elements the walk reaches.
EmbedPaths ==
    { p \in PathsOf(Body, <<>>) :
        /\ ElemAt(Body, p).tag \in {"script", "svg"}
        /\ \A k \in 1..(Len(p) - 1) :
            ElemAt(Body, SubSeq(p, 1, k)).tag \notin {"script", "svg"} }

\* C25: a script or svg element the walk reaches has exactly one node, an
\* embed that holds the element's outer markup, marked executable for a
\* script and not for an svg, without children; nothing inside the element
\* has a node; and every class of the used-class set stands on an element
\* that is not inside a script or svg.
C25_ScriptSvgEmbed ==
    Done =>
        /\ \A p \in EmbedPaths :
            /\ Cardinality({ i \in 1..Len(result.nodes) : result.nodes[i].src = p }) = 1
            /\ NodeOf(p).type = "HtmlEmbed"
            /\ NodeOf(p).v = OuterHTML(ElemAt(Body, p))
            /\ NodeOf(p).script = (ElemAt(Body, p).tag = "script")
            /\ NodeOf(p).children = <<>>
            /\ \A i \in 1..Len(result.nodes) : ~Inside(result.nodes[i].src, p)
        /\ \A c \in this.usedClasses :
            \E q \in PathsOf(Body, <<>>) :
                /\ c \in Range(ElemAt(Body, q).classes)
                /\ \A p \in EmbedPaths : ~Inside(q, p)

\* C25 witness: an svg with a classed descendant, whose class has a rule
\* in the stylesheet and stands on no other element, is converted.
C25_Witness ==
    /\ Done
    /\ \E p \in EmbedPaths :
        /\ ElemAt(Body, p).tag = "svg"
        /\ HasNodeOf(p)
        /\ \E q \in PathsOf(Body, <<>>) :
            /\ Inside(q, p)
            /\ <<"a">> \in Range(ElemAt(Body, q).classes)
    /\ <<"a">> \notin this.usedClasses
    /\ UnusedClassRules # {}

\* The nodes the conversion created, in creation order, are this.nodes.
Created(id) == \E i \in 1..Len(this.nodes) : this.nodes[i]._id = id

CreatedNode(id) == this.nodes[CHOOSE i \in 1..Len(this.nodes) : this.nodes[i]._id = id]

\* The node id followed by the pre-order listings of its children, in the
\* order of its children list (nothing for an identifier of no node).
RECURSIVE Preorder(_)
Preorder(id) ==
    IF ~Created(id) THEN <<>>
    ELSE <<CreatedNode(id)>>
            \o Flatten([c \in 1..Len(CreatedNode(id).children) |->
                            Preorder(CreatedNode(id).children[c])])

Unreached(n) == n \notin Range(Preorder(result.rootNodeId))

\* C26: the output node list is the depth-first pre-order listing from
\* the root, followed by the nodes it does not reach in creation order;
\* every created node is in the output exactly once; every reached node
\* stands after the node that lists it as a child.
C26_PreorderThenOrphans ==
    Done =>
        /\ result.nodes = Preorder(result.rootNodeId) \o SelectSeq(this.nodes, Unreached)
        /\ Len(result.nodes) = Len(this.nodes)
        /\ \A i \in 1..Len(this.nodes) :
            Cardinality({ j \in 1..Len(result.nodes) : result.nodes[j] = this.nodes[i] }) = 1
        /\ \A j \in 1..Len(Preorder(result.rootNodeId)) :
            \A i \in 1..Len(result.nodes) :
                result.nodes[j]._id \in Range(result.nodes[i].children) => i < j

\* C26 witness: a traversal three levels deep that leaves a node
\* unreached, which stands at the end of the output.
C26_Witness ==
    /\ Done
    /\ Len(Preorder(result.rootNodeId)) < Len(result.nodes)
    /\ Unreached(result.nodes[Len(result.nodes)])
    /\ \E i, j \in 1..Len(Preorder(result.rootNodeId)) :
        /\ result.nodes[i]._id \in Range(result.nodes[1].children)
        /\ result.nodes[j]._id \in Range(result.nodes[i].children)

\* The identifiers in the children lists of the output nodes named in ids.
ChildrenOf(ids) ==
    UNION { Range(result.nodes[i].children) :
                i \in { j \in 1..Len(result.nodes) : result.nodes[j]._id \in ids } }

\* The identifiers reached from ids through at most k children lists.
RECURSIVE ReachFrom(_, _)
ReachFrom(ids, k) == IF k = 0 THEN ids ELSE ReachFrom(ids \cup ChildrenOf(ids), k - 1)

\* C27: the children references of the output form a forest: no
\* identifier stands twice in one children list, none stands in the
\* children lists of two nodes, and no node is reached from itself.
C27_ChildrenFormForest ==
    Done =>
        /\ \A i \in 1..Len(result.nodes) :
            \A a, b \in 1..Len(result.nodes[i].children) :
                result.nodes[i].children[a] = result.nodes[i].children[b] => a = b
        /\ \A i, j \in 1..Len(result.nodes) :
            i # j => Range(result.nodes[i].children) \cap Range(result.nodes[j].children) = {}
        /\ \A i \in 1..Len(result.nodes) :
            result.nodes[i]._id
                \notin ReachFrom(Range(result.nodes[i].children), Len(result.nodes))

\* C28 (SpecNormalize): the normalizer drops no declaration: whatever the
\* property and the number of its values, the rule gets a declaration
\* string, and a value of the pair stands in it.
C28_NoDeclarationDropped ==
    Normalized1 =>
        /\ Emitted # <<>>
        /\ \E i \in 1..Len(input.vals) : input.vals[i] \in Range(Emitted)

====
